---- MODULE Spec2Model ----
(***************************************************************************)
(* Navigation state machine of metabase-explorer (package tui).            *)
(*                                                                         *)
(* Spec models Model.Update of the collections / global-search revision of *)
(* the terminal UI: one action per key case and per message case of the    *)
(* type switch.  A command returned by Update (tea.Cmd) is a message put   *)
(* in flight; its completion is delivered later, in any order, by one of   *)
(* the *Loaded actions.  The metadata service is nondeterministic: every   *)
(* fetch may fail or answer with any list of the response sets below.      *)
(* A Go run-time panic (index out of range, nil dereference) inside Update *)
(* ends the program: panicked becomes TRUE and nothing more happens.       *)
(***************************************************************************)
EXTENDS Naturals, Integers, Sequences, FiniteSets, Bags, TLC

\* ---------------------------------------------------------------- bounds
MaxInFlight == 2      \* completion messages that may be undelivered at once
TreeDepth == 2        \* nesting depth of sub-collections, and deepest stack explored
MaxQuery == 3         \* longest global search query explored
MaxNumberInput == 3   \* longest numeric buffer explored
BigListLen == 18      \* length of the long collection listing of the service
MaxSearchQuery == 2   \* longest in-list search query explored
MaxTables == 3        \* longest table list handed to ExtractSchemas
MaxTimers == 2        \* spinner timers that may run at once

\* ------------------------------------------------------- program constants
terminalHeight == 25
HelpLinks == 3

\* -------------------------------------------------------------- key inputs
Digits == {"0", "1", "8"}
Chars == {"a"}
SearchChars == {"a", "b"}

DigitVal(d) ==
  CASE d = "0" -> 0 [] d = "1" -> 1 [] d = "2" -> 2 [] d = "3" -> 3
    [] d = "4" -> 4 [] d = "5" -> 5 [] d = "6" -> 6 [] d = "7" -> 7
    [] d = "8" -> 8 [] d = "9" -> 9

RECURSIVE Atoi(_)
Atoi(s) == IF s = <<>> THEN 0
           ELSE 10 * Atoi(SubSeq(s, 1, Len(s) - 1)) + DigitVal(s[Len(s)])

\* ------------------------------------------------------------------ views
viewMainMenu == "viewMainMenu"
viewDatabases == "viewDatabases"
viewSchemas == "viewSchemas"
viewTables == "viewTables"
viewFields == "viewFields"
viewCollections == "viewCollections"
viewCollectionItems == "viewCollectionItems"
viewGlobalSearch == "viewGlobalSearch"

\* a Go pointer is the empty sequence (nil) or a one-element sequence
Nil == <<>>
Ptr(x) == <<x>>
Deref(p) == p[1]

Max(a, b) == IF a > b THEN a ELSE b

\* ------------------------------------------------- the metadata service
\* schema names in ascending string order; "" is the unnamed schema
SchemaNames == <<"", "analytics", "default", "public">>
NameRank(n) == CHOOSE i \in 1..Len(SchemaNames) : SchemaNames[i] = n
DefaultSchema == "default"

Table(id, schema) == [ID |-> id, Schema |-> schema]
Item(id, model) == [ID |-> id, Model |-> model]

\* What the service holds and which keys the user has the habit of pressing
\* are fixed when the program starts: a warehouse of two databases, one with
\* a single schema and one with several, and a library of nested
\* collections, both browsed with the navigation keys only; an archive with
\* one long collection listing, browsed with navigation and digit keys; a
\* gallery of two nested collections, browsed with navigation keys and the
\* help overlay; a kiosk with one database that holds no table, used with
\* every key but the search keys; and a search index, used with every key
\* but the digits; and an atlas, a gallery browsed with the navigation and
\* search keys.
\* Within a world every fetch may still fail or answer with any list of the
\* matching response set.
Worlds == {"warehouse", "library", "archive", "gallery", "index", "kiosk",
           "atlas"}
\* the worlds of the in-list search revision: a catalog like the warehouse,
\* browsed with navigation and search keys, and a counter with two empty
\* databases, used with every key
SearchWorlds == {"catalog", "counter"}
\* the world in which the spinner's timer is followed: a clock shop with one
\* database of one table and no collection, browsed with the navigation keys
\* and the help overlay
SpinnerWorlds == {"clock"}

ErrLoad == "load failed"
SpinnerFrames == 10
ErrBrowser == "Failed to open browser"

VARIABLES
  databases, schemas, tables, fields, collections, collectionItems,
  searchResults, globalSearchQuery, cursor, loading, error, currentView,
  selectedDatabase, selectedSchema, selectedTable, selectedCollection,
  collectionStack, viewportStart, viewportHeight, numberInput, helpMode,
  helpCursor,
  spinnerIndex, \* the frame of the loading spinner, read by View alone
  inflight,   \* bag of commands whose completion message is not yet delivered
  panicked,   \* a run-time panic ended the program
  quit,       \* Update returned tea.Quit and the program has exited
  configFile, \* the config file on disk
  call,       \* a call of a helper function: its arguments and its result
  pushLog,    \* history: <<current collection, stack>> before each open drill-in
  world,      \* the service and the user of this run, one of Worlds
  searchMode, searchQuery,
  filteredIndices   \* 0-based indices into the list of the current view

lists == <<databases, schemas, tables, fields, collections, collectionItems,
           searchResults>>
selections == <<selectedDatabase, selectedSchema, selectedTable,
                selectedCollection>>
viewport == <<viewportStart, viewportHeight>>
help == <<helpMode, helpCursor>>
search == <<searchMode, searchQuery, filteredIndices>>
vars == <<lists, globalSearchQuery, cursor, loading, error, currentView,
          selections, collectionStack, viewport, numberInput, help, inflight,
          panicked, pushLog, world, quit,
                 configFile, call, spinnerIndex, search>>

UsesDigits == world \in {"archive", "kiosk", "counter"}
UsesHelp == world \in {"gallery", "index", "kiosk", "counter", "clock"}
UsesBrowser == world \in {"index", "kiosk", "counter"}
UsesSearch == world \in {"index", "atlas"}

\* answers of GetDatabases
DatabaseLists ==
  CASE world \in {"warehouse", "catalog", "counter"} -> { <<1, 2>> }
    [] world \in {"kiosk", "clock"} -> { <<1>> }
    [] OTHER -> { <<>> }

\* answers of GetTables
TableLists(db) ==
  CASE world \in {"warehouse", "catalog", "clock"} /\ db = 1 ->
         { << Table(1, "") >> }
    [] world \in {"warehouse", "catalog"} /\ db # 1 ->
         { << Table(2, "public"), Table(3, "") >> }
    [] OTHER -> { <<>> }

\* answers of GetTableFields
FieldLists(t) ==
  CASE world \in {"warehouse", "kiosk"} -> { <<1>> }
    [] OTHER -> { <<>> }

\* answers of GetCollections
CollectionLists ==
  CASE world = "library" -> { <<1, 2>> }
    [] world \in {"archive", "gallery", "atlas"} -> { <<1>> }
    [] OTHER -> { <<>> }

\* a collection at the deepest level holds cards only
RECURSIVE Pow10(_)
Pow10(n) == IF n = 0 THEN 1 ELSE 10 * Pow10(n - 1)
Child(c) == IF c < Pow10(TreeDepth) THEN Item(10 * c + 1, "collection")
            ELSE Item(10 * c + 1, "card")

\* answers of GetCollectionItems
ItemLists(c) ==
  CASE world = "library" /\ c = 2 -> { <<>> }
    [] world = "library" /\ c # 2 ->
         { << Child(c) >>,
           << Item(10 * c + 2, "card"), Child(c) >> }
    [] world = "archive" /\ c = 1 ->
         { [i \in 1..BigListLen |->
              IF i = 1 THEN Child(c) ELSE Item(10 * c + 1 + i, "card")] }
    [] world = "archive" /\ c # 1 -> { << Item(10 * c + 2, "card") >> }
    [] world \in {"gallery", "atlas"} /\ c = 1 ->
         { << Item(11, "collection") >> }
    [] world \in {"gallery", "atlas"} /\ c # 1 ->
         { << Item(10 * c + 2, "card") >> }
    [] OTHER -> { <<>> }

\* answers of Search: every result carries the query it was found for
SearchLists(q) ==
  CASE world = "index" -> { <<>>, << q >>, << q, q >> }
    [] world = "kiosk" -> { << q >> }
    [] OTHER -> { <<>> }

\* ------------------------------------------------------------- commands
\* A tea.Cmd returned by Update, identified by the message it will deliver
\* and the arguments it was built with.  stale records that the user has
\* left, by a backward key or by '/', the view the fetch was issued for.
Cmd(kind, id, name, q) ==
  [kind |-> kind, id |-> id, name |-> name, q |-> q, stale |-> FALSE]

connectionTest == Cmd("connectionTested", 0, "", <<>>)
loadDatabases == Cmd("databasesLoaded", 0, "", <<>>)
loadSchemas(databaseID) == Cmd("schemasLoaded", databaseID, "", <<>>)
loadTablesForSchema(databaseID, schemaName) ==
  Cmd("tablesLoaded", databaseID, schemaName, <<>>)
loadFields(tableID) == Cmd("fieldsLoaded", tableID, "", <<>>)
loadCollections == Cmd("collectionsLoaded", 0, "", <<>>)
loadCollectionItems(collectionID) ==
  Cmd("collectionItemsLoaded", collectionID, "", <<>>)
loadGlobalSearch(query) == Cmd("globalSearchLoaded", 0, "", query)

FetchKinds == {"databasesLoaded", "schemasLoaded", "tablesLoaded",
               "fieldsLoaded", "collectionsLoaded", "collectionItemsLoaded",
               "globalSearchLoaded"}

\* the fetches whose completion message is still undelivered
Outstanding == {c \in BagToSet(inflight) : c.kind \in FetchKinds}
OutstandingCount ==
  BagCardinality([c \in Outstanding |-> CopiesIn(c, inflight)])

\* tickSpinner(): the 100 ms timer that delivers spinnerTick
tickSpinner == Cmd("spinnerTick", 0, "", <<>>)

\* the timer is followed in the worlds of SpecSpinner; elsewhere its message,
\* which touches nothing but spinnerIndex, is left out
Timers == IF world \in SpinnerWorlds THEN SetToBag({tickSpinner}) ELSE EmptyBag
TimerCount == CopiesIn(tickSpinner, inflight)

\* tea.Batch(c, tickSpinner())
Batch(c) == SetToBag({c}) (+) Timers

\* the schema fetches in flight: the completion of each may start one more
\* timer, for the single schema it enters at once
SkipsAhead ==
  LET S == {c \in BagToSet(inflight) : c.kind = "schemasLoaded"}
  IN  BagCardinality([c \in S |-> CopiesIn(c, inflight)])

\* the commands in flight are bounded: c can be scheduled when a fetch and
\* the timers it may start still fit
Room(c) ==
  /\ BagCardinality(inflight) - TimerCount < MaxInFlight
  /\ world \in SpinnerWorlds =>
       TimerCount + SkipsAhead + (IF c.kind = "schemasLoaded" THEN 1 ELSE 0)
         < MaxTimers

Schedule(c) ==
  /\ Room(c)
  /\ inflight' = inflight (+) Batch(c)

MarkStale(b) ==
  LET S == {IF c.kind = "spinnerTick" THEN c ELSE [c EXCEPT !.stale = TRUE] :
              c \in BagToSet(b)}
  IN  [s \in S |-> IF s.kind = "spinnerTick" THEN CopiesIn(s, b)
                   ELSE CopiesIn(s, b)
                          + CopiesIn([s EXCEPT !.stale = FALSE], b)]

\* ------------------------------------------------------- pure functions
\* SchemaOf, except that an empty schema name is kept
SchemaOf_keepsEmpty(table) ==
  table.Schema

\* the name a table is counted under: "default" when its schema is empty
SchemaOf(table) == IF table.Schema = "" THEN DefaultSchema ELSE table.Schema

RECURSIVE SetToSeq(_)
SetToSeq(S) == IF S = {} THEN <<>>
               ELSE LET x == CHOOSE x \in S : TRUE
                    IN  <<x>> \o SetToSeq(S \ {x})

Swap(s, i, j) == [s EXCEPT ![i] = s[j], ![j] = s[i]]

RECURSIVE SortInner(_, _, _)
SortInner(s, i, j) ==
  IF j > Len(s) THEN s
  ELSE SortInner(IF NameRank(s[i].Name) > NameRank(s[j].Name)
                 THEN Swap(s, i, j) ELSE s, i, j + 1)

RECURSIVE SortOuter(_, _)
SortOuter(s, i) ==
  IF i >= Len(s) THEN s ELSE SortOuter(SortInner(s, i, i + 1), i + 1)

ExtractSchemas(ts) ==
  LET names == {SchemaOf(ts[i]) : i \in 1..Len(ts)}
      count(n) == Cardinality({i \in 1..Len(ts) : SchemaOf(ts[i]) = n})
      unsorted == SetToSeq({[Name |-> n, TableCount |-> count(n)] : n \in names})
  IN  SortOuter(unsorted, 1)

\* TablesForSchema, except that the schema of a table is compared as it is
TablesForSchema_rawSchema(allTables, schemaName) ==
  SelectSeq(allTables, LAMBDA t : t.Schema = schemaName)

\* loadTablesForSchema: the tables counted under schemaName, in their order
TablesForSchema(allTables, schemaName) ==
  SelectSeq(allTables, LAMBDA t : SchemaOf(t) = schemaName)

\* updateViewport: the new <<viewportStart, viewportHeight>>
updateViewport(cur, start, length) ==
  LET h0 == terminalHeight - 8
      height == IF h0 < 5 THEN 5 ELSE h0
      s1 == IF cur < start THEN cur
            ELSE IF cur >= start + height THEN cur - height + 1
            ELSE start
      s2 == IF s1 < 0 THEN 0 ELSE s1
      maxStart == IF length - height < 0 THEN 0 ELSE length - height
      s3 == IF s2 > maxStart THEN maxStart ELSE s2
  IN  <<s3, height>>

\* number of items the digit keys validate against
itemCount ==
  CASE currentView = viewMainMenu -> 2
    [] currentView = viewDatabases -> Len(databases)
    [] currentView = viewCollections -> Len(collections)
    [] currentView = viewCollectionItems -> Len(collectionItems)
    [] currentView = viewSchemas -> Len(schemas)
    [] currentView = viewTables -> Len(tables)
    [] currentView = viewFields -> Len(fields)
    [] OTHER -> 0

\* no config file exists; no helper function is being called
NoFile == [exists |-> FALSE]
NoCall == [fn |-> "none", args |-> <<>>, done |-> FALSE, result |-> <<>>]

\* ---------------------------------------------------------------- Init
Init ==
  /\ databases = <<>> /\ schemas = <<>> /\ tables = <<>> /\ fields = <<>>
  /\ collections = <<>> /\ collectionItems = <<>> /\ searchResults = <<>>
  /\ globalSearchQuery = <<>>
  /\ cursor = 0
  /\ loading = FALSE
  /\ error = ""
  /\ currentView = viewMainMenu
  /\ selectedDatabase = Nil /\ selectedSchema = Nil /\ selectedTable = Nil
  /\ selectedCollection = Nil
  /\ collectionStack = <<>>
  /\ viewportStart = 0 /\ viewportHeight = 0
  /\ numberInput = <<>>
  /\ helpMode = FALSE /\ helpCursor = 0
  /\ inflight = SetToBag({connectionTest})
  /\ panicked = FALSE
  /\ quit = FALSE
  /\ spinnerIndex = 0
  /\ configFile = NoFile
  /\ call = NoCall
  /\ pushLog = <<>>
  /\ world \in Worlds
  /\ searchMode = FALSE /\ searchQuery = <<>> /\ filteredIndices = <<>>

\* a run-time panic inside Update: no new model is returned
Panic ==
  /\ panicked' = TRUE
  /\ UNCHANGED <<lists, globalSearchQuery, cursor, loading, error, currentView,
                 selections, collectionStack, viewport, numberInput, help,
                 inflight, pushLog, world, quit,
                 configFile, call, spinnerIndex, search>>

\* -------------------------------------------------------------- key events
\* the program exits: its model is discarded, only the view it ended in is kept
Exit ==
  /\ quit' = TRUE
  /\ databases' = <<>> /\ schemas' = <<>> /\ tables' = <<>> /\ fields' = <<>>
  /\ collections' = <<>> /\ collectionItems' = <<>> /\ searchResults' = <<>>
  /\ globalSearchQuery' = <<>>
  /\ cursor' = 0
  /\ loading' = FALSE
  /\ error' = ""
  /\ selectedDatabase' = Nil /\ selectedSchema' = Nil /\ selectedTable' = Nil
  /\ selectedCollection' = Nil
  /\ collectionStack' = <<>>
  /\ viewportStart' = 0 /\ viewportHeight' = 0
  /\ numberInput' = <<>>
  /\ helpMode' = FALSE /\ helpCursor' = 0
  /\ inflight' = EmptyBag
  /\ pushLog' = <<>>
  /\ searchMode' = FALSE /\ searchQuery' = <<>> /\ filteredIndices' = <<>>
  /\ spinnerIndex' = 0
  /\ UNCHANGED <<currentView, panicked, world, configFile, call>>

\* case "ctrl+c", "q": return m, tea.Quit
KeyCtrlC ==
  /\ ~panicked /\ ~quit
  /\ Exit

\* case "?"
KeyHelp ==
  /\ ~panicked /\ ~quit
  /\ helpMode' = ~helpMode
  /\ helpCursor' = IF ~helpMode THEN 0 ELSE helpCursor
  /\ UNCHANGED <<lists, globalSearchQuery, cursor, loading, error, currentView,
                 selections, collectionStack, viewport, numberInput, inflight,
                 panicked, pushLog, world, quit,
                 configFile, call, spinnerIndex, search>>

\* case "/"
KeySlash ==
  /\ ~panicked /\ ~quit
  /\ IF helpMode
     THEN UNCHANGED <<searchResults, globalSearchQuery, cursor, loading, error,
                      currentView, inflight>>
     ELSE /\ currentView' = viewGlobalSearch
          /\ globalSearchQuery' = <<>>
          /\ cursor' = 0
          /\ loading' = FALSE
          /\ error' = ""
          /\ searchResults' = <<>>
          /\ inflight' = MarkStale(inflight)
  /\ UNCHANGED <<databases, schemas, tables, fields, collections,
                 collectionItems, selections, collectionStack, viewport,
                 numberInput, help, panicked, pushLog, world, quit,
                 configFile, call, spinnerIndex, search>>

\* hoverIndex, except that the 1-based number is used as the index
hoverIndex_oneBased(num) ==
  num

\* m.cursor = num - 1: the typed 1-based number as a 0-based index
hoverIndex(num) ==
  num - 1

\* case "0" .. "9"
KeyDigit(d) ==
  /\ ~panicked /\ ~quit
  /\ IF helpMode
     THEN UNCHANGED <<cursor, numberInput>>
     ELSE /\ Len(numberInput) < MaxNumberInput
          /\ LET input == Append(numberInput, d)
                 num == Atoi(input)
             IN  IF num >= 1 /\ num <= itemCount
                 THEN /\ cursor' = hoverIndex(num)
                      /\ numberInput' = input
                 ELSE /\ cursor' = cursor
                      /\ numberInput' =
                           IF /\ Len(input) >= 3 \/ (Len(input) = 2 /\ input[1] # "0")
                              /\ num > itemCount
                           THEN <<>> ELSE input
  /\ UNCHANGED <<lists, globalSearchQuery, loading, error, currentView,
                 selections, collectionStack, viewport, help, inflight,
                 panicked, pushLog, world, quit,
                 configFile, call, spinnerIndex, search>>

\* case "up", "k"
KeyUp ==
  /\ ~panicked /\ ~quit
  /\ IF helpMode
     THEN /\ helpCursor' = IF helpCursor > 0 THEN helpCursor - 1 ELSE helpCursor
          /\ UNCHANGED <<cursor, viewport, numberInput>>
     ELSE /\ numberInput' = <<>>
          /\ cursor' = IF cursor > 0 THEN cursor - 1 ELSE cursor
          /\ LET vp ==
               IF /\ cursor > 0
                  /\ currentView = viewCollectionItems
                  /\ Len(collectionItems) > 0
               THEN updateViewport(cursor - 1, viewportStart, Len(collectionItems))
               ELSE <<viewportStart, viewportHeight>>
             IN  viewportStart' = vp[1] /\ viewportHeight' = vp[2]
          /\ UNCHANGED helpCursor
  /\ UNCHANGED <<lists, globalSearchQuery, loading, error, currentView,
                 selections, collectionStack, helpMode, inflight, panicked,
                 pushLog, world, quit,
                 configFile, call, spinnerIndex, search>>

\* length of the list the "down" key bounds the cursor by
downLimit ==
  CASE currentView = viewMainMenu -> 2
    [] currentView = viewDatabases -> Len(databases)
    [] currentView = viewCollections -> Len(collections)
    [] currentView = viewCollectionItems -> Len(collectionItems)
    [] currentView = viewSchemas -> Len(schemas)
    [] currentView = viewTables -> Len(tables)
    [] currentView = viewFields -> Len(fields)
    [] currentView = viewGlobalSearch -> Len(searchResults)

\* case "down", "j"
KeyDown ==
  /\ ~panicked /\ ~quit
  /\ IF helpMode
     THEN /\ helpCursor' = IF helpCursor < HelpLinks - 1 THEN helpCursor + 1
                           ELSE helpCursor
          /\ UNCHANGED <<cursor, viewport, numberInput>>
     ELSE /\ numberInput' = <<>>
          /\ cursor' = IF cursor < downLimit - 1 THEN cursor + 1 ELSE cursor
          /\ LET vp ==
               IF /\ currentView = viewCollectionItems
                  /\ cursor < Len(collectionItems) - 1
               THEN updateViewport(cursor + 1, viewportStart, Len(collectionItems))
               ELSE <<viewportStart, viewportHeight>>
             IN  viewportStart' = vp[1] /\ viewportHeight' = vp[2]
          /\ UNCHANGED helpCursor
  /\ UNCHANGED <<lists, globalSearchQuery, loading, error, currentView,
                 selections, collectionStack, helpMode, inflight, panicked,
                 pushLog, world, quit,
                 configFile, call, spinnerIndex, search>>

\* the link of the help overlay is opened in the browser, which may fail
HelpOpenLink ==
  /\ \E ok \in BOOLEAN : error' = IF ok THEN error ELSE ErrBrowser
  /\ UNCHANGED <<lists, globalSearchQuery, cursor, loading, currentView,
                 selections, collectionStack, viewport, numberInput, help,
                 inflight, panicked, pushLog, world, quit,
                 configFile, call, spinnerIndex, search>>

\* esc / left close the help overlay
HelpClose ==
  /\ helpMode' = FALSE
  /\ UNCHANGED <<lists, globalSearchQuery, cursor, loading, error, currentView,
                 selections, collectionStack, viewport, numberInput,
                 helpCursor, inflight, panicked, pushLog, world, quit,
                 configFile, call, spinnerIndex, search>>

\* the forward transition switches to view, resets the cursor and schedules c
Enter(view, c) ==
  /\ currentView' = view
  /\ cursor' = 0
  /\ loading' = TRUE
  /\ error' = ""
  /\ Schedule(c)

\* the list the forward keys index with the cursor, <<>> where they index none
forwardList ==
  CASE currentView = viewDatabases -> databases
    [] currentView = viewCollections -> collections
    [] currentView = viewCollectionItems -> collectionItems
    [] currentView = viewSchemas -> schemas
    [] currentView = viewTables -> tables
    [] OTHER -> <<>>

\* index out of range, or nil selectedDatabase dereferenced in viewSchemas
ForwardPanics ==
  \/ Len(forwardList) > 0 /\ cursor >= Len(forwardList)
  \/ currentView = viewSchemas /\ Len(schemas) > 0 /\ selectedDatabase = Nil

\* PushCollection, except that the current collection is dropped first
PushCollection_pushesNil(item) ==
  /\ Len(collectionStack) < TreeDepth
  /\ collectionStack' = Append(collectionStack, Nil)
  /\ pushLog' = Append(pushLog, <<selectedCollection, collectionStack>>)
  /\ selectedCollection' = Ptr(item.ID)
  /\ Enter(viewCollectionItems, loadCollectionItems(item.ID))
  /\ UNCHANGED <<selectedDatabase, selectedSchema, selectedTable>>

\* drill into a sub-collection: the current collection goes on the stack
PushCollection(item) ==
  /\ Len(collectionStack) < TreeDepth
  /\ collectionStack' = Append(collectionStack, selectedCollection)
  /\ pushLog' = Append(pushLog, <<selectedCollection, collectionStack>>)
  /\ selectedCollection' = Ptr(item.ID)
  /\ Enter(viewCollectionItems, loadCollectionItems(item.ID))
  /\ UNCHANGED <<selectedDatabase, selectedSchema, selectedTable>>

\* ForwardIgnored, except that the spinner is started
ForwardIgnored_showsSpinner ==
  /\ loading' = TRUE
  /\ UNCHANGED <<cursor, error, currentView, selections,
                 collectionStack, inflight, pushLog>>

\* no branch of the forward keys applies: only the numeric buffer was cleared
ForwardIgnored ==
  UNCHANGED <<cursor, loading, error, currentView, selections,
              collectionStack, inflight, pushLog>>

\* body shared by case "right", "l" and case "enter" outside the help overlay
Forward ==
  IF ForwardPanics THEN Panic
  ELSE
  /\ numberInput' = <<>>
  /\ UNCHANGED <<globalSearchQuery, viewport, help, lists, panicked, world, quit,
                 configFile, call, spinnerIndex, search>>
  /\ CASE currentView = viewMainMenu /\ cursor = 0 ->
            /\ Enter(viewCollections, loadCollections)
            /\ UNCHANGED <<selections, collectionStack, pushLog>>
       [] currentView = viewMainMenu /\ cursor = 1 ->
            /\ Enter(viewDatabases, loadDatabases)
            /\ UNCHANGED <<selections, collectionStack, pushLog>>
       [] currentView = viewDatabases /\ Len(databases) > 0 ->
            /\ selectedDatabase' = Ptr(databases[cursor + 1])
            /\ Enter(viewSchemas, loadSchemas(databases[cursor + 1]))
            /\ UNCHANGED <<selectedSchema, selectedTable, selectedCollection,
                           collectionStack, pushLog>>
       [] currentView = viewCollections /\ Len(collections) > 0 ->
            /\ selectedCollection' = Ptr(collections[cursor + 1])
            /\ collectionStack' = <<>>
            /\ pushLog' = <<>>
            /\ Enter(viewCollectionItems, loadCollectionItems(collections[cursor + 1]))
            /\ UNCHANGED <<selectedDatabase, selectedSchema, selectedTable>>
       [] /\ currentView = viewCollectionItems /\ Len(collectionItems) > 0
          /\ collectionItems[cursor + 1].Model = "collection" ->
            PushCollection(collectionItems[cursor + 1])
       [] currentView = viewSchemas /\ Len(schemas) > 0 ->
            /\ selectedSchema' = Ptr(schemas[cursor + 1])
            /\ Enter(viewTables, loadTablesForSchema(Deref(selectedDatabase),
                                                     schemas[cursor + 1].Name))
            /\ UNCHANGED <<selectedDatabase, selectedTable, selectedCollection,
                           collectionStack, pushLog>>
       [] currentView = viewTables /\ Len(tables) > 0 ->
            /\ selectedTable' = Ptr(tables[cursor + 1])
            /\ Enter(viewFields, loadFields(tables[cursor + 1].ID))
            /\ UNCHANGED <<selectedDatabase, selectedSchema, selectedCollection,
                           collectionStack, pushLog>>
       [] OTHER -> ForwardIgnored

\* case "right", "l"
KeyRight ==
  /\ ~panicked /\ ~quit
  /\ IF helpMode THEN HelpOpenLink ELSE Forward

\* case "enter"
KeyEnter ==
  /\ ~panicked /\ ~quit
  /\ IF helpMode THEN HelpOpenLink ELSE Forward

\* case "w": getWebURL never fails, opening the browser may
KeyW ==
  /\ ~panicked /\ ~quit
  /\ \E ok \in BOOLEAN : error' = IF ok THEN error ELSE ErrBrowser
  /\ UNCHANGED <<lists, globalSearchQuery, cursor, loading, currentView,
                 selections, collectionStack, viewport, numberInput, help,
                 inflight, panicked, pushLog, world, quit,
                 configFile, call, spinnerIndex, search>>

\* the popped collection is dereferenced for its ID
BackPanics ==
  /\ numberInput = <<>>
  /\ currentView = viewCollectionItems
  /\ Len(collectionStack) > 0
  /\ collectionStack[Len(collectionStack)] = Nil

\* PopCollection, except that the bottom of the stack becomes current
PopCollection_takesBottom ==
  /\ selectedCollection' = collectionStack[1]
  /\ collectionStack' = SubSeq(collectionStack, 1, Len(collectionStack) - 1)
  /\ pushLog' = SubSeq(pushLog, 1, Len(pushLog) - 1)
  /\ cursor' = 0
  /\ loading' = TRUE
  /\ error' = ""
  /\ Room(loadCollectionItems(0))
  /\ inflight' = MarkStale(inflight) (+)
       Batch(loadCollectionItems(Deref(collectionStack[1])))
  /\ UNCHANGED <<lists, globalSearchQuery, currentView, selectedDatabase,
                 selectedSchema, selectedTable>>

\* backward in viewCollectionItems, stack not empty: back to the parent
PopCollection ==
  /\ selectedCollection' = collectionStack[Len(collectionStack)]
  /\ collectionStack' = SubSeq(collectionStack, 1, Len(collectionStack) - 1)
  /\ pushLog' = SubSeq(pushLog, 1, Len(pushLog) - 1)
  /\ cursor' = 0
  /\ loading' = TRUE
  /\ error' = ""
  /\ Room(loadCollectionItems(0))
  /\ inflight' = MarkStale(inflight) (+)
       Batch(loadCollectionItems(Deref(collectionStack[Len(collectionStack)])))
  /\ UNCHANGED <<lists, globalSearchQuery, currentView, selectedDatabase,
                 selectedSchema, selectedTable>>

\* LeaveCollectionItems, except that the item list is kept
LeaveCollectionItems_keepsItems ==
  /\ currentView' = viewCollections
  /\ cursor' = 0
  /\ selectedCollection' = Nil
  /\ inflight' = MarkStale(inflight)
  /\ UNCHANGED <<lists, globalSearchQuery, loading, error,
                 selectedDatabase, selectedSchema, selectedTable,
                 collectionStack, pushLog>>

\* backward in viewCollectionItems, stack empty: back to the root collections
LeaveCollectionItems ==
  /\ currentView' = viewCollections
  /\ cursor' = 0
  /\ selectedCollection' = Nil
  /\ collectionItems' = <<>>
  /\ inflight' = MarkStale(inflight)
  /\ UNCHANGED <<databases, schemas, tables, fields, collections,
                 searchResults, globalSearchQuery, loading, error,
                 selectedDatabase, selectedSchema, selectedTable,
                 collectionStack, pushLog>>

\* LeaveTopLevel, except that the two top-level lists are kept
LeaveTopLevel_keepsLists ==
  /\ currentView' = viewMainMenu
  /\ cursor' = 0
  /\ selectedDatabase' = Nil
  /\ inflight' = MarkStale(inflight)
  /\ UNCHANGED <<lists, globalSearchQuery, loading, error,
                 selectedSchema, selectedTable, selectedCollection,
                 collectionStack, pushLog>>

\* backward in viewDatabases or viewCollections: back to the main menu
LeaveTopLevel ==
  /\ currentView' = viewMainMenu
  /\ cursor' = 0
  /\ selectedDatabase' = Nil
  /\ databases' = <<>>
  /\ collections' = <<>>
  /\ inflight' = MarkStale(inflight)
  /\ UNCHANGED <<schemas, tables, fields, collectionItems,
                 searchResults, globalSearchQuery, loading, error,
                 selectedSchema, selectedTable, selectedCollection,
                 collectionStack, pushLog>>

\* the else-if chain shared by "left", "backspace" and "esc"; only "left"
\* has the viewGlobalSearch branch
Back(leavesSearch) ==
  IF BackPanics THEN Panic
  ELSE
  /\ UNCHANGED <<viewport, help, panicked, world, quit,
                 configFile, call, spinnerIndex, search>>
  /\ IF numberInput # <<>> THEN
       /\ numberInput' = <<>>
       /\ UNCHANGED <<cursor, loading, error, currentView, globalSearchQuery,
                      selections, collectionStack, inflight, pushLog, lists>>
     ELSE
       /\ numberInput' = numberInput
       /\ CASE currentView \in {viewDatabases, viewCollections} ->
                 LeaveTopLevel
            [] currentView = viewCollectionItems /\ Len(collectionStack) > 0 ->
                 PopCollection
            [] currentView = viewCollectionItems /\ Len(collectionStack) = 0 ->
                 LeaveCollectionItems
            [] currentView = viewSchemas ->
                 /\ currentView' = viewDatabases
                 /\ cursor' = 0
                 /\ selectedDatabase' = Nil
                 /\ schemas' = <<>>
                 /\ inflight' = MarkStale(inflight)
                 /\ UNCHANGED <<databases, tables, fields, collections,
                                collectionItems, searchResults, globalSearchQuery,
                                loading, error, selectedSchema, selectedTable,
                                selectedCollection, collectionStack, pushLog>>
            [] currentView = viewTables ->
                 /\ currentView' = viewSchemas
                 /\ cursor' = 0
                 /\ selectedSchema' = Nil
                 /\ tables' = <<>>
                 /\ inflight' = MarkStale(inflight)
                 /\ UNCHANGED <<databases, schemas, fields, collections,
                                collectionItems, searchResults, globalSearchQuery,
                                loading, error, selectedDatabase, selectedTable,
                                selectedCollection, collectionStack, pushLog>>
            [] currentView = viewFields ->
                 /\ currentView' = viewTables
                 /\ cursor' = 0
                 /\ selectedTable' = Nil
                 /\ fields' = <<>>
                 /\ inflight' = MarkStale(inflight)
                 /\ UNCHANGED <<databases, schemas, tables, collections,
                                collectionItems, searchResults, globalSearchQuery,
                                loading, error, selectedDatabase, selectedSchema,
                                selectedCollection, collectionStack, pushLog>>
            [] currentView = viewGlobalSearch /\ leavesSearch ->
                 /\ currentView' = viewMainMenu
                 /\ cursor' = 0
                 /\ searchResults' = <<>>
                 /\ globalSearchQuery' = <<>>
                 /\ inflight' = MarkStale(inflight)
                 /\ UNCHANGED <<databases, schemas, tables, fields, collections,
                                collectionItems, loading, error, selections,
                                collectionStack, pushLog>>
            [] OTHER ->
                 UNCHANGED <<lists, globalSearchQuery, cursor, loading, error,
                             currentView, selections, collectionStack, inflight,
                             pushLog>>

\* case "left", "h"
KeyLeft ==
  /\ ~panicked /\ ~quit
  /\ IF helpMode THEN HelpClose ELSE Back(TRUE)

\* KeyEsc, except that outside the help overlay the key is ignored
KeyEsc_closesHelpOnly ==
  /\ ~panicked /\ ~quit
  /\ IF helpMode THEN HelpClose ELSE UNCHANGED vars

\* case "esc"
KeyEsc ==
  /\ ~panicked /\ ~quit
  /\ IF helpMode THEN HelpClose ELSE Back(FALSE)

\* case "backspace": edits the global search query, then falls into the
\* backward chain unless the shortened query is searched again
KeyBackspace ==
  /\ ~panicked /\ ~quit
  /\ IF currentView = viewGlobalSearch /\ Len(globalSearchQuery) > 0
     THEN LET query == SubSeq(globalSearchQuery, 1, Len(globalSearchQuery) - 1)
          IN  /\ globalSearchQuery' = query
              /\ cursor' = 0
              /\ IF Len(query) >= 2
                 THEN /\ loading' = TRUE
                      /\ error' = ""
                      /\ Schedule(loadGlobalSearch(query))
                      /\ UNCHANGED <<searchResults, numberInput>>
                 ELSE /\ searchResults' = <<>>
                      /\ numberInput' = <<>>
                      /\ UNCHANGED <<loading, error, inflight>>
              /\ UNCHANGED <<databases, schemas, tables, fields, collections,
                             collectionItems, currentView, selections,
                             collectionStack, viewport, help, panicked, pushLog, world, quit,
                 configFile, call, spinnerIndex, search>>
     ELSE Back(FALSE)

\* default case: a printable key typed in the global search view
KeyChar(ch) ==
  /\ ~panicked /\ ~quit
  /\ IF currentView = viewGlobalSearch /\ ~loading
     THEN /\ Len(globalSearchQuery) < MaxQuery
          /\ globalSearchQuery' = Append(globalSearchQuery, ch)
          /\ cursor' = 0
          /\ IF Len(globalSearchQuery) + 1 >= 2
             THEN /\ loading' = TRUE
                  /\ error' = ""
                  /\ Schedule(loadGlobalSearch(Append(globalSearchQuery, ch)))
             ELSE UNCHANGED <<loading, error, inflight>>
     ELSE UNCHANGED <<globalSearchQuery, cursor, loading, error, inflight>>
  /\ UNCHANGED <<lists, currentView, selections, collectionStack, viewport,
                 numberInput, help, panicked, pushLog, world, quit,
                 configFile, call, spinnerIndex, search>>

\* ------------------------------------------------------ completion messages
Delivered(c) == inflight (-) SetToBag({c})

\* LoadFailed, except that the failure also moves the cursor to the top
LoadFailed_resetsCursor(c) ==
  /\ loading' = FALSE
  /\ error' = ErrLoad
  /\ cursor' = 0
  /\ inflight' = Delivered(c)
  /\ UNCHANGED <<lists, globalSearchQuery, currentView, selections,
                 collectionStack, viewport, numberInput, help, panicked,
                 pushLog, world, quit,
                 configFile, call, spinnerIndex, search>>

\* every *Loaded case with msg.err != nil
LoadFailed(c) ==
  /\ loading' = FALSE
  /\ error' = ErrLoad
  /\ inflight' = Delivered(c)
  /\ UNCHANGED <<lists, globalSearchQuery, cursor, currentView, selections,
                 collectionStack, viewport, numberInput, help, panicked,
                 pushLog, world, quit,
                 configFile, call, spinnerIndex, search>>

\* case connectionTested
ConnectionTested(c) ==
  /\ c.kind = "connectionTested"
  /\ \E failed \in BOOLEAN :
       error' = IF failed THEN ErrLoad ELSE error
  /\ inflight' = Delivered(c)
  /\ UNCHANGED <<lists, globalSearchQuery, cursor, loading, currentView,
                 selections, collectionStack, viewport, numberInput, help,
                 panicked, pushLog, world, quit,
                 configFile, call, spinnerIndex, search>>

\* case databasesLoaded with msg.err == nil
DatabasesLoadedOK(c, dbs) ==
  /\ loading' = FALSE
  /\ databases' = dbs
  /\ inflight' = Delivered(c)
  /\ UNCHANGED <<schemas, tables, fields, collections, collectionItems,
                 searchResults, globalSearchQuery, cursor, error,
                 currentView, selections, collectionStack, viewport,
                 numberInput, help, panicked, pushLog, world, quit,
                 configFile, call, spinnerIndex, search>>

\* case databasesLoaded
DatabasesLoaded(c) ==
  /\ c.kind = "databasesLoaded"
  /\ \/ LoadFailed(c)
     \/ \E dbs \in DatabaseLists : DatabasesLoadedOK(c, dbs)

\* case collectionsLoaded with msg.err == nil
CollectionsLoadedOK(c, cs) ==
  /\ loading' = FALSE
  /\ collections' = cs
  /\ inflight' = Delivered(c)
  /\ UNCHANGED <<databases, schemas, tables, fields, collectionItems,
                 searchResults, globalSearchQuery, cursor, error,
                 currentView, selections, collectionStack, viewport,
                 numberInput, help, panicked, pushLog, world, quit,
                 configFile, call, spinnerIndex, search>>

\* case collectionsLoaded
CollectionsLoaded(c) ==
  /\ c.kind = "collectionsLoaded"
  /\ \/ LoadFailed(c)
     \/ \E cs \in CollectionLists : CollectionsLoadedOK(c, cs)

\* case collectionItemsLoaded with msg.err == nil
CollectionItemsLoadedOK(c, items) ==
  /\ loading' = FALSE
  /\ collectionItems' = items
  /\ LET vp ==
       IF Len(items) > 0
       THEN updateViewport(cursor, 0, Len(items))
       ELSE <<0, viewportHeight>>
     IN  viewportStart' = vp[1] /\ viewportHeight' = vp[2]
  /\ inflight' = Delivered(c)
  /\ UNCHANGED <<databases, schemas, tables, fields, collections,
                 searchResults, globalSearchQuery, cursor, error,
                 currentView, selections, collectionStack, numberInput,
                 help, panicked, pushLog, world, quit,
                 configFile, call, spinnerIndex, search>>

\* case collectionItemsLoaded
CollectionItemsLoaded(c) ==
  /\ c.kind = "collectionItemsLoaded"
  /\ \/ LoadFailed(c)
     \/ \E items \in ItemLists(c.id) : CollectionItemsLoadedOK(c, items)

\* case globalSearchLoaded with msg.err == nil
GlobalSearchLoadedOK(c, results) ==
  /\ loading' = FALSE
  /\ searchResults' = results
  /\ inflight' = Delivered(c)
  /\ UNCHANGED <<databases, schemas, tables, fields, collections,
                 collectionItems, globalSearchQuery, cursor, error,
                 currentView, selections, collectionStack, viewport,
                 numberInput, help, panicked, pushLog, world, quit,
                 configFile, call, spinnerIndex, search>>

\* case globalSearchLoaded
GlobalSearchLoaded(c) ==
  /\ c.kind = "globalSearchLoaded"
  /\ \/ LoadFailed(c)
     \/ \E results \in SearchLists(c.q) : GlobalSearchLoadedOK(c, results)

\* case schemasLoaded with msg.err == nil; a single schema is entered at once
SchemasLoadedOK(c, allTables) ==
  LET loaded == ExtractSchemas(allTables)
  IN  IF Len(loaded) = 1 /\ selectedDatabase = Nil
      THEN Panic
      ELSE
      /\ schemas' = loaded
      /\ IF Len(loaded) = 1
         THEN /\ selectedSchema' = Ptr(loaded[1])
              /\ currentView' = viewTables
              /\ cursor' = 0
              /\ loading' = TRUE
              /\ inflight' = Delivered(c) (+)
                   Batch(loadTablesForSchema(
                     Deref(selectedDatabase), loaded[1].Name))
         ELSE /\ loading' = FALSE
              /\ inflight' = Delivered(c)
              /\ UNCHANGED <<selectedSchema, currentView, cursor>>
      /\ UNCHANGED <<databases, tables, fields, collections,
                     collectionItems, searchResults, globalSearchQuery,
                     error, selectedDatabase, selectedTable,
                     selectedCollection, collectionStack, viewport,
                     numberInput, help, panicked, pushLog, world, quit,
                 configFile, call, spinnerIndex, search>>

\* case schemasLoaded
SchemasLoaded(c) ==
  /\ c.kind = "schemasLoaded"
  /\ \/ LoadFailed(c)
     \/ \E allTables \in TableLists(c.id) : SchemasLoadedOK(c, allTables)

\* case tablesLoaded with msg.err == nil
TablesLoadedOK(c, allTables) ==
  /\ loading' = FALSE
  /\ tables' = TablesForSchema(allTables, c.name)
  /\ inflight' = Delivered(c)
  /\ UNCHANGED <<databases, schemas, fields, collections,
                 collectionItems, searchResults, globalSearchQuery,
                 cursor, error, currentView, selections,
                 collectionStack, viewport, numberInput, help,
                 panicked, pushLog, world, quit,
                 configFile, call, spinnerIndex, search>>

\* case tablesLoaded
TablesLoaded(c) ==
  /\ c.kind = "tablesLoaded"
  /\ \/ LoadFailed(c)
     \/ \E allTables \in TableLists(c.id) : TablesLoadedOK(c, allTables)

\* case fieldsLoaded with msg.err == nil
FieldsLoadedOK(c, fs) ==
  /\ loading' = FALSE
  /\ fields' = fs
  /\ inflight' = Delivered(c)
  /\ UNCHANGED <<databases, schemas, tables, collections,
                 collectionItems, searchResults, globalSearchQuery,
                 cursor, error, currentView, selections,
                 collectionStack, viewport, numberInput, help,
                 panicked, pushLog, world, quit,
                 configFile, call, spinnerIndex, search>>

\* case fieldsLoaded
FieldsLoaded(c) ==
  /\ c.kind = "fieldsLoaded"
  /\ \/ LoadFailed(c)
     \/ \E fs \in FieldLists(c.id) : FieldsLoadedOK(c, fs)

\* one completion message is taken from those in flight
Deliver ==
  /\ ~panicked /\ ~quit
  /\ \E c \in BagToSet(inflight) :
       \/ ConnectionTested(c)
       \/ DatabasesLoaded(c)
       \/ CollectionsLoaded(c)
       \/ CollectionItemsLoaded(c)
       \/ GlobalSearchLoaded(c)
       \/ SchemasLoaded(c)
       \/ TablesLoaded(c)
       \/ FieldsLoaded(c)

Next ==
  \/ KeyCtrlC
  \/ UsesHelp /\ KeyHelp
  \/ UsesSearch /\ KeySlash
  \/ UsesDigits /\ \E d \in Digits : KeyDigit(d)
  \/ KeyUp
  \/ KeyDown
  \/ KeyLeft
  \/ KeyRight
  \/ KeyEnter
  \/ UsesBrowser /\ KeyW
  \/ KeyBackspace
  \/ KeyEsc
  \/ UsesSearch /\ \E ch \in Chars : KeyChar(ch)
  \/ Deliver

Spec == Init /\ [][Next]_vars

\* ------------------------------------------------------------ the spinner
\* SpinnerTick, except that the timer is started again in any case
SpinnerTick_keepsTicking ==
  /\ ~panicked /\ ~quit
  /\ TimerCount > 0
  /\ spinnerIndex' = IF loading THEN (spinnerIndex + 1) % SpinnerFrames
                     ELSE spinnerIndex
  /\ inflight' = Delivered(tickSpinner) (+) SetToBag({tickSpinner})
  /\ UNCHANGED <<lists, globalSearchQuery, cursor, loading, error, currentView,
                 selections, collectionStack, viewport, numberInput, help,
                 panicked, pushLog, world, quit, configFile, call, search>>

\* case spinnerTick: while loading the frame advances and the timer is started
\* again; otherwise the message is dropped
SpinnerTick ==
  /\ ~panicked /\ ~quit
  /\ TimerCount > 0
  /\ IF loading
     THEN /\ spinnerIndex' = (spinnerIndex + 1) % SpinnerFrames
          /\ inflight' = Delivered(tickSpinner) (+) SetToBag({tickSpinner})
     ELSE /\ spinnerIndex' = spinnerIndex
          /\ inflight' = Delivered(tickSpinner)
  /\ UNCHANGED <<lists, globalSearchQuery, cursor, loading, error, currentView,
                 selections, collectionStack, viewport, numberInput, help,
                 panicked, pushLog, world, quit, configFile, call, search>>

InitSpinner ==
  /\ databases = <<>> /\ schemas = <<>> /\ tables = <<>> /\ fields = <<>>
  /\ collections = <<>> /\ collectionItems = <<>> /\ searchResults = <<>>
  /\ globalSearchQuery = <<>>
  /\ cursor = 0
  /\ loading = FALSE
  /\ error = ""
  /\ currentView = viewMainMenu
  /\ selectedDatabase = Nil /\ selectedSchema = Nil /\ selectedTable = Nil
  /\ selectedCollection = Nil
  /\ collectionStack = <<>>
  /\ viewportStart = 0 /\ viewportHeight = 0
  /\ numberInput = <<>>
  /\ helpMode = FALSE /\ helpCursor = 0
  /\ spinnerIndex = 0
  /\ inflight = SetToBag({connectionTest})
  /\ panicked = FALSE
  /\ quit = FALSE
  /\ configFile = NoFile
  /\ call = NoCall
  /\ pushLog = <<>>
  /\ world \in SpinnerWorlds
  /\ searchMode = FALSE /\ searchQuery = <<>> /\ filteredIndices = <<>>

NextSpinner ==
  \/ KeyCtrlC
  \/ UsesHelp /\ KeyHelp
  \/ KeyUp
  \/ KeyDown
  \/ KeyLeft
  \/ KeyRight
  \/ KeyEnter
  \/ KeyBackspace
  \/ KeyEsc
  \/ Deliver
  \/ SpinnerTick

SpecSpinner == InitSpinner /\ [][NextSpinner]_vars

\* ============================================ the in-list search revision
\* SpecSearch models Model.Update of the revision of the terminal UI that
\* has the four database views and a search mode filtering the list of the
\* current view.  Outside search mode its key cases for "?", digits, up,
\* down, right, enter and "w" and its message cases are, on the database
\* views, the ones of Spec and are shared with it.

\* the letters of the names the service gives to its items
Letters(name) ==
  CASE name = "default" -> <<"d", "e", "f", "a", "u", "l", "t">>
    [] name = "public" -> <<"p", "u", "b", "l", "i", "c">>
    [] name = "analytics" -> <<"a", "n", "a", "l", "y", "t", "i", "c", "s">>
    [] OTHER -> <<>>
IdName(id) ==
  CASE id = 1 -> <<"a", "b">>
    [] id = 2 -> <<"b">>
    [] OTHER -> <<"b", "a">>

\* the names updateSearch collects from the list of the current view
viewNames ==
  CASE currentView = viewDatabases ->
         [i \in 1..Len(databases) |-> IdName(databases[i])]
    [] currentView = viewSchemas ->
         [i \in 1..Len(schemas) |-> Letters(schemas[i].Name)]
    [] currentView = viewTables ->
         [i \in 1..Len(tables) |-> IdName(tables[i].ID)]
    [] currentView = viewFields ->
         [i \in 1..Len(fields) |-> IdName(fields[i])]
    [] OTHER -> <<>>

\* fuzzy.Find keeps the names that hold the pattern's letters in order and
\* ranks them by a score; every ranking is taken to be possible
RECURSIVE IsSubseq(_, _)
IsSubseq(pattern, name) ==
  IF pattern = <<>> THEN TRUE
  ELSE IF name = <<>> THEN FALSE
  ELSE IF pattern[1] = name[1] THEN IsSubseq(Tail(pattern), Tail(name))
  ELSE IsSubseq(pattern, Tail(name))
Matching(pattern, names) ==
  {i - 1 : i \in {j \in 1..Len(names) : IsSubseq(pattern, names[j])}}
Rankings(S) ==
  {f \in [1..Cardinality(S) -> S] :
     \A i, j \in 1..Cardinality(S) : i # j => f[i] # f[j]}

\* updateSearch, except that an emptied query keeps the old filter
updateSearch_keepsFilter(query) ==
  IF query = <<>> \/ currentView = viewMainMenu
  THEN /\ filteredIndices' = filteredIndices
       /\ cursor' = cursor
  ELSE /\ filteredIndices' \in Rankings(Matching(query, viewNames))
       /\ cursor' = 0

\* Model.updateSearch, called in search mode with the query just edited
updateSearch(query) ==
  IF query = <<>> \/ currentView = viewMainMenu
  THEN /\ filteredIndices' = <<>>
       /\ cursor' = cursor
  ELSE /\ filteredIndices' \in Rankings(Matching(query, viewNames))
       /\ cursor' = 0

\* the fields of Spec's Model this revision does not have
outside == <<collections, collectionItems, searchResults, globalSearchQuery,
             selectedCollection, collectionStack, viewport, pushLog, world,
             quit, configFile, call, spinnerIndex>>

InitSearch ==
  /\ databases = <<>> /\ schemas = <<>> /\ tables = <<>> /\ fields = <<>>
  /\ collections = <<>> /\ collectionItems = <<>> /\ searchResults = <<>>
  /\ globalSearchQuery = <<>>
  /\ cursor = 0
  /\ loading = TRUE
  /\ error = ""
  /\ currentView = viewDatabases
  /\ selectedDatabase = Nil /\ selectedSchema = Nil /\ selectedTable = Nil
  /\ selectedCollection = Nil
  /\ collectionStack = <<>>
  /\ viewportStart = 0 /\ viewportHeight = 0
  /\ numberInput = <<>>
  /\ helpMode = FALSE /\ helpCursor = 0
  /\ inflight = SetToBag({connectionTest, loadDatabases})
  /\ panicked = FALSE
  /\ quit = FALSE
  /\ spinnerIndex = 0
  /\ configFile = NoFile
  /\ call = NoCall
  /\ pushLog = <<>>
  /\ world \in SearchWorlds
  /\ searchMode = FALSE /\ searchQuery = <<>> /\ filteredIndices = <<>>

\* SearchEsc, except that the cursor stays where it is
SearchEsc_keepsCursor ==
  /\ ~panicked /\ ~quit /\ searchMode
  /\ searchMode' = FALSE
  /\ searchQuery' = <<>>
  /\ filteredIndices' = <<>>
  /\ UNCHANGED <<databases, schemas, tables, fields, loading, error,
                 currentView, selectedDatabase, selectedSchema, selectedTable,
                 numberInput, help, inflight, panicked, outside, cursor>>

\* search mode, case "esc"
SearchEsc ==
  /\ ~panicked /\ ~quit /\ searchMode
  /\ searchMode' = FALSE
  /\ searchQuery' = <<>>
  /\ filteredIndices' = <<>>
  /\ cursor' = 0
  /\ UNCHANGED <<databases, schemas, tables, fields, loading, error,
                 currentView, selectedDatabase, selectedSchema, selectedTable,
                 numberInput, help, inflight, panicked, outside>>

\* the slice the selection is taken from is indexed out of range, or the
\* nil selectedDatabase is dereferenced
SearchEnterPanics(actualIndex) ==
  \/ /\ currentView = viewDatabases /\ Len(databases) > 0
     /\ actualIndex >= Len(databases)
  \/ /\ currentView = viewSchemas /\ Len(schemas) > 0
     /\ actualIndex >= Len(schemas) \/ selectedDatabase = Nil
  \/ /\ currentView = viewTables /\ Len(tables) > 0
     /\ actualIndex >= Len(tables)

\* search mode, case "enter" with a filtered item under the cursor
SearchCommit(actualIndex) ==
  /\ searchMode' = FALSE
  /\ searchQuery' = <<>>
  /\ filteredIndices' = <<>>
  /\ UNCHANGED <<databases, schemas, tables, fields, numberInput, help,
                 panicked, outside>>
  /\ CASE currentView = viewDatabases /\ Len(databases) > 0 ->
            /\ selectedDatabase' = Ptr(databases[actualIndex + 1])
            /\ Enter(viewSchemas, loadSchemas(databases[actualIndex + 1]))
            /\ UNCHANGED <<selectedSchema, selectedTable>>
       [] currentView = viewSchemas /\ Len(schemas) > 0 ->
            /\ selectedSchema' = Ptr(schemas[actualIndex + 1])
            /\ Enter(viewTables,
                     loadTablesForSchema(Deref(selectedDatabase),
                                         schemas[actualIndex + 1].Name))
            /\ UNCHANGED <<selectedDatabase, selectedTable>>
       [] currentView = viewTables /\ Len(tables) > 0 ->
            /\ selectedTable' = Ptr(tables[actualIndex + 1])
            /\ Enter(viewFields, loadFields(tables[actualIndex + 1].ID))
            /\ UNCHANGED <<selectedDatabase, selectedSchema>>
       [] OTHER ->
            /\ cursor' = actualIndex
            /\ UNCHANGED <<loading, error, currentView, selectedDatabase,
                           selectedSchema, selectedTable, inflight>>

\* search mode, case "enter"
SearchEnter ==
  /\ ~panicked /\ ~quit /\ searchMode
  /\ IF Len(filteredIndices) > 0 /\ cursor < Len(filteredIndices)
     THEN IF SearchEnterPanics(filteredIndices[cursor + 1])
          THEN Panic
          ELSE SearchCommit(filteredIndices[cursor + 1])
     ELSE UNCHANGED vars

\* search mode, case "backspace"
SearchBackspace ==
  /\ ~panicked /\ ~quit /\ searchMode
  /\ IF Len(searchQuery) > 0
     THEN /\ searchQuery' = SubSeq(searchQuery, 1, Len(searchQuery) - 1)
          /\ updateSearch(searchQuery')
     ELSE UNCHANGED <<searchQuery, filteredIndices, cursor>>
  /\ UNCHANGED <<databases, schemas, tables, fields, loading, error,
                 currentView, selectedDatabase, selectedSchema, selectedTable,
                 numberInput, help, inflight, panicked, outside, searchMode>>

\* search mode, case "up", "k"
SearchUp ==
  /\ ~panicked /\ ~quit /\ searchMode
  /\ cursor' = IF cursor > 0 THEN cursor - 1 ELSE cursor
  /\ UNCHANGED <<databases, schemas, tables, fields, loading, error,
                 currentView, selectedDatabase, selectedSchema, selectedTable,
                 numberInput, help, inflight, panicked, outside, search>>

\* SearchDown, except that the cursor is not held at the last filtered item
SearchDown_unbounded ==
  /\ ~panicked /\ ~quit /\ searchMode
  /\ cursor' = cursor + 1
  /\ cursor < BigListLen
  /\ UNCHANGED <<databases, schemas, tables, fields, loading, error,
                 currentView, selectedDatabase, selectedSchema, selectedTable,
                 numberInput, help, inflight, panicked, outside, search>>

\* search mode, case "down", "j"
SearchDown ==
  /\ ~panicked /\ ~quit /\ searchMode
  /\ cursor' = IF Len(filteredIndices) > 0 /\ cursor < Len(filteredIndices) - 1
               THEN cursor + 1 ELSE cursor
  /\ UNCHANGED <<databases, schemas, tables, fields, loading, error,
                 currentView, selectedDatabase, selectedSchema, selectedTable,
                 numberInput, help, inflight, panicked, outside, search>>

\* search mode, default case: a one-character key is added to the query
SearchType(ch) ==
  /\ ~panicked /\ ~quit /\ searchMode
  /\ Len(searchQuery) < MaxSearchQuery
  /\ searchQuery' = Append(searchQuery, ch)
  /\ updateSearch(searchQuery')
  /\ UNCHANGED <<databases, schemas, tables, fields, loading, error,
                 currentView, selectedDatabase, selectedSchema, selectedTable,
                 numberInput, help, inflight, panicked, outside, searchMode>>

\* normal mode, case "/"
SearchSlash ==
  /\ ~panicked /\ ~quit /\ ~searchMode
  /\ IF helpMode
     THEN UNCHANGED <<searchMode, searchQuery, cursor>>
     ELSE /\ searchMode' = TRUE
          /\ searchQuery' = <<>>
          /\ cursor' = 0
  /\ UNCHANGED <<databases, schemas, tables, fields, loading, error,
                 currentView, selectedDatabase, selectedSchema, selectedTable,
                 numberInput, help, inflight, panicked, outside,
                 filteredIndices>>

\* the else-if chain shared by "left", "backspace" and "esc" in normal mode
DbBack ==
  /\ UNCHANGED <<databases, loading, error, help, panicked, outside, search>>
  /\ IF numberInput # <<>> THEN
       /\ numberInput' = <<>>
       /\ UNCHANGED <<schemas, tables, fields, cursor, currentView,
                      selectedDatabase, selectedSchema, selectedTable,
                      inflight>>
     ELSE
       /\ numberInput' = numberInput
       /\ CASE currentView = viewSchemas ->
                 /\ currentView' = viewDatabases
                 /\ cursor' = 0
                 /\ selectedDatabase' = Nil
                 /\ schemas' = <<>>
                 /\ inflight' = MarkStale(inflight)
                 /\ UNCHANGED <<tables, fields, selectedSchema, selectedTable>>
            [] currentView = viewTables ->
                 /\ currentView' = viewSchemas
                 /\ cursor' = 0
                 /\ selectedSchema' = Nil
                 /\ tables' = <<>>
                 /\ inflight' = MarkStale(inflight)
                 /\ UNCHANGED <<schemas, fields, selectedDatabase,
                                selectedTable>>
            [] currentView = viewFields ->
                 /\ currentView' = viewTables
                 /\ cursor' = 0
                 /\ selectedTable' = Nil
                 /\ fields' = <<>>
                 /\ inflight' = MarkStale(inflight)
                 /\ UNCHANGED <<schemas, tables, selectedDatabase,
                                selectedSchema>>
            [] OTHER ->
                 UNCHANGED <<schemas, tables, fields, cursor, currentView,
                             selectedDatabase, selectedSchema, selectedTable,
                             inflight>>

\* normal mode, case "left", "h"
DbKeyLeft ==
  /\ ~panicked /\ ~quit /\ ~searchMode
  /\ IF helpMode THEN HelpClose ELSE DbBack

\* normal mode, case "esc"
DbKeyEsc ==
  /\ ~panicked /\ ~quit /\ ~searchMode
  /\ IF helpMode THEN HelpClose ELSE DbBack

\* normal mode, case "backspace"
DbKeyBackspace ==
  /\ ~panicked /\ ~quit /\ ~searchMode
  /\ DbBack

\* the connection test of Init: a failure is delivered as databasesLoaded
\* with the error, a success delivers no message
DbConnectionTested(c) ==
  /\ c.kind = "connectionTested"
  /\ \/ LoadFailed(c)
     \/ /\ inflight' = Delivered(c)
        /\ UNCHANGED <<lists, globalSearchQuery, cursor, loading, error,
                       currentView, selections, collectionStack, viewport,
                       numberInput, help, panicked, pushLog, world, quit,
                 configFile, call, spinnerIndex, search>>

DbDeliver ==
  /\ ~panicked /\ ~quit
  /\ \E c \in BagToSet(inflight) :
       \/ DbConnectionTested(c)
       \/ DatabasesLoaded(c)
       \/ SchemasLoaded(c)
       \/ TablesLoaded(c)
       \/ FieldsLoaded(c)

\* the key "ctrl+c": the search-mode switch has no case for it and its default
\* branch ignores keys of more than one character
DbKeyCtrlC ==
  IF searchMode
  THEN /\ ~panicked /\ ~quit
       /\ UNCHANGED vars
  ELSE KeyCtrlC

\* the key "?": a typed character in search mode, the help toggle otherwise
DbKeyHelp ==
  IF searchMode THEN SearchType("?") ELSE KeyHelp

NextSearch ==
  \/ DbKeyCtrlC
  \/ UsesHelp /\ DbKeyHelp
  \/ SearchSlash
  \/ ~searchMode /\ UsesDigits /\ \E d \in Digits : KeyDigit(d)
  \/ ~searchMode /\ KeyUp
  \/ ~searchMode /\ KeyDown
  \/ DbKeyLeft
  \/ ~searchMode /\ KeyRight
  \/ ~searchMode /\ KeyEnter
  \/ ~searchMode /\ UsesBrowser /\ KeyW
  \/ DbKeyBackspace
  \/ DbKeyEsc
  \/ SearchEsc
  \/ SearchEnter
  \/ SearchBackspace
  \/ SearchUp
  \/ SearchDown
  \/ \E ch \in SearchChars : SearchType(ch)
  \/ DbDeliver

SpecSearch == InitSearch /\ [][NextSearch]_vars

\* ------------------------------------------------------ helper functions
\* the fields of the TUI model, which a call of a helper function leaves alone
ui == <<lists, globalSearchQuery, cursor, loading, error, currentView,
        selections, collectionStack, viewport, numberInput, help, inflight,
        panicked, pushLog, world, quit, spinnerIndex, search>>

\* no TUI is running
Idle ==
  /\ databases = <<>> /\ schemas = <<>> /\ tables = <<>> /\ fields = <<>>
  /\ collections = <<>> /\ collectionItems = <<>> /\ searchResults = <<>>
  /\ globalSearchQuery = <<>>
  /\ cursor = 0
  /\ loading = FALSE
  /\ error = ""
  /\ currentView = viewMainMenu
  /\ selectedDatabase = Nil /\ selectedSchema = Nil /\ selectedTable = Nil
  /\ selectedCollection = Nil
  /\ collectionStack = <<>>
  /\ viewportStart = 0 /\ viewportHeight = 0
  /\ numberInput = <<>>
  /\ helpMode = FALSE /\ helpCursor = 0
  /\ inflight = EmptyBag
  /\ panicked = FALSE
  /\ quit = FALSE
  /\ spinnerIndex = 0
  /\ pushLog = <<>>
  /\ world = "none"
  /\ searchMode = FALSE /\ searchQuery = <<>> /\ filteredIndices = <<>>

\* a call of fn with args that has not returned yet
Call(fn, args) == [fn |-> fn, args |-> args, done |-> FALSE, result |-> <<>>]

\* the call returns result
Return(result) ==
  /\ ~call.done
  /\ call' = [call EXCEPT !.done = TRUE, !.result = result]

\* ---- util.ExtractSchemas
\* table lists of up to MaxTables tables over the schema names
RECURSIVE TableInputs(_)
TableInputs(n) ==
  IF n = 0 THEN {<<>>}
  ELSE LET shorter == TableInputs(n - 1)
       IN  shorter \cup
           {Append(ts, Table(Len(ts) + 1, name)) :
              ts \in {t \in shorter : Len(t) = n - 1},
              name \in {SchemaNames[i] : i \in 1..Len(SchemaNames)}}

\* schemaMap after the first loop, as name and count pairs
schemaMap(ts) ==
  {[Name |-> n, TableCount |-> Cardinality({i \in 1..Len(ts) : SchemaOf(ts[i]) = n})] :
     n \in {SchemaOf(ts[i]) : i \in 1..Len(ts)}}

InitExtractSchemas ==
  /\ Idle
  /\ configFile = NoFile
  /\ call \in {Call("ExtractSchemas", ts) : ts \in TableInputs(MaxTables)}

\* ExtractSchemas(tables): the map is ranged over in any order, then the
\* schemas are sorted by name
CallExtractSchemas ==
  /\ call.fn = "ExtractSchemas"
  /\ \E order \in Rankings(schemaMap(call.args)) : Return(SortOuter(order, 1))
  /\ UNCHANGED <<ui, configFile>>

NextExtractSchemas == CallExtractSchemas

SpecExtractSchemas == InitExtractSchemas /\ [][NextExtractSchemas]_vars

\* ---- loadTablesForSchema after loadSchemas
\* loadTablesForSchema for the schema of row i of the schema list, the service
\* answering with the table list the schemas were extracted from
CallLoadTablesForSchema ==
  /\ call.fn = "ExtractSchemas" /\ call.done
  /\ \E i \in 1..Len(call.result) :
       call' = [fn |-> "loadTablesForSchema",
                args |-> <<call.args, call.result, i>>,
                done |-> TRUE,
                result |-> TablesForSchema(call.args, call.result[i].Name)]
  /\ UNCHANGED <<ui, configFile>>

NextSchemaTables == CallExtractSchemas \/ CallLoadTablesForSchema

SpecSchemaTables == InitExtractSchemas /\ [][NextSchemaTables]_vars

\* ---- config.LoadConfig, config.SaveConfig, config.ResolveConfiguration
ProfileNames == {"work", "dev"}
Profile(url, token) == [URL |-> url, Token |-> token]
Profiles ==
  {Profile("u", "t"), Profile("", "t"), Profile("u", ""), Profile("null", "t")}

\* a Config: Profiles maps names to profiles; isNil tells a nil map from an
\* empty one
Config(default, isNil, profiles) ==
  [DefaultProfile |-> default, isNil |-> isNil, Profiles |-> profiles]
ProfileMaps ==
  UNION {[names -> Profiles] : names \in SUBSET ProfileNames}
Configs ==
  {Config(d, FALSE, m) : d \in {""} \cup ProfileNames, m \in ProfileMaps}
    \cup {Config(d, TRUE, <<>>) : d \in {""} \cup ProfileNames}

\* what an unquoted YAML scalar resolves to
PlainTag(text) ==
  IF text \in {"", "~", "null"} THEN "null"
  ELSE IF text \in {"true", "false"} THEN "bool"
  ELSE "str"

\* Scalar, except that no string is ever quoted
Scalar_alwaysPlain(text) ==
  [text |-> text, quoted |-> FALSE]

\* yaml.Marshal of a string: quoted when the plain form is not a string
Scalar(text) ==
  [text |-> text, quoted |-> PlainTag(text) # "str"]

\* yaml.Unmarshal of a scalar into a string field: a null leaves it empty
Decode(node) ==
  IF ~node.quoted /\ PlainTag(node.text) = "null" THEN "" ELSE node.text

\* yaml.Marshal(config): the keys are the yaml tags of Config and Profile; a
\* nil map is written as an empty mapping
Marshal(config) ==
  [default_profile |-> Scalar(config.DefaultProfile),
   hasProfiles |-> TRUE,
   profiles |-> {[key |-> Scalar(n),
                  url |-> Scalar(config.Profiles[n].URL),
                  token |-> Scalar(config.Profiles[n].Token)] :
                   n \in DOMAIN config.Profiles}]

\* yaml.Unmarshal(data, &config): a missing profiles key leaves the map nil
Unmarshal(doc) ==
  LET names == {Decode(e.key) : e \in doc.profiles}
      entry(n) == CHOOSE e \in doc.profiles : Decode(e.key) = n
  IN  Config(Decode(doc.default_profile), ~doc.hasProfiles,
             [n \in names |-> Profile(Decode(entry(n).url),
                                       Decode(entry(n).token))])

\* an empty file, as YAML
EmptyDoc ==
  [default_profile |-> [text |-> "", quoted |-> FALSE],
   hasProfiles |-> FALSE, profiles |-> {}]

\* a config file: accessible tells whether the process may read and write it,
\* valid whether its bytes are YAML
File(accessible, valid, doc) ==
  [exists |-> TRUE, accessible |-> accessible, valid |-> valid, doc |-> doc]
Files ==
  {NoFile, File(FALSE, TRUE, EmptyDoc), File(TRUE, FALSE, EmptyDoc),
   File(TRUE, TRUE, EmptyDoc)}
    \cup {File(TRUE, TRUE, Marshal(c)) : c \in Configs}

\* LoadConfig() on the file; GetConfigPath is taken to name the file
LoadConfig(file) ==
  IF ~file.exists
  THEN [err |-> FALSE, config |-> Config("", FALSE, <<>>)]
  ELSE IF ~file.accessible \/ ~file.valid
  THEN [err |-> TRUE, config |-> Config("", TRUE, <<>>)]
  ELSE LET config == Unmarshal(file.doc)
       IN  [err |-> FALSE,
            config |-> IF config.isNil
                       THEN Config(config.DefaultProfile, FALSE, <<>>)
                       ELSE config]

\* ResolveConfiguration, except that the profile is read before the flags
ResolveConfiguration_configFirst(file, flagURL, flagToken, flagProfile) ==
  LET loaded == LoadConfig(file)
      profileName == IF flagProfile # "" THEN flagProfile
                     ELSE loaded.config.DefaultProfile
      exists == profileName # "" /\ profileName \in DOMAIN loaded.config.Profiles
      profile == loaded.config.Profiles[profileName]
      metabaseURL == IF exists /\ profile.URL # "" THEN profile.URL ELSE flagURL
      apiToken == IF exists /\ profile.Token # "" THEN profile.Token ELSE flagToken
  IN  IF loaded.err \/ metabaseURL = "" \/ apiToken = ""
      THEN [url |-> "", token |-> "", err |-> TRUE]
      ELSE [url |-> metabaseURL, token |-> apiToken, err |-> FALSE]

\* ResolveConfiguration(flagURL, flagToken, flagProfile) with the file on disk
ResolveConfiguration(file, flagURL, flagToken, flagProfile) ==
  IF flagURL # "" /\ flagToken # ""
  THEN [url |-> flagURL, token |-> flagToken, err |-> FALSE]
  ELSE
  LET loaded == LoadConfig(file)
      profileName == IF flagProfile # "" THEN flagProfile
                     ELSE loaded.config.DefaultProfile
      exists == profileName # "" /\ profileName \in DOMAIN loaded.config.Profiles
      profile == loaded.config.Profiles[profileName]
      metabaseURL == IF flagURL = "" /\ exists /\ profile.URL # ""
                     THEN profile.URL ELSE flagURL
      apiToken == IF flagToken = "" /\ exists /\ profile.Token # ""
                  THEN profile.Token ELSE flagToken
  IN  IF loaded.err \/ metabaseURL = "" \/ apiToken = ""
      THEN [url |-> "", token |-> "", err |-> TRUE]
      ELSE [url |-> metabaseURL, token |-> apiToken, err |-> FALSE]

FlagURLs == {"", "fu"}
FlagTokens == {"", "ft"}
FlagProfiles == {""} \cup ProfileNames

InitConfig ==
  /\ Idle
  /\ configFile \in Files
  /\ call = NoCall

\* SaveConfig(config): MkdirAll, yaml.Marshal, os.WriteFile; a failure leaves
\* the file as it was, or cut short when the write had begun
CallSaveConfig(config) ==
  /\ \/ /\ configFile.exists => configFile.accessible
        /\ configFile' = File(TRUE, TRUE, Marshal(config))
        /\ call' = [fn |-> "SaveConfig", args |-> config, done |-> TRUE,
                    result |-> [err |-> FALSE]]
     \/ /\ configFile' \in
             {configFile} \cup
             IF configFile.exists => configFile.accessible
             THEN {File(TRUE, TRUE, EmptyDoc), File(TRUE, FALSE, EmptyDoc)}
             ELSE {}
        /\ call' = [fn |-> "SaveConfig", args |-> config, done |-> TRUE,
                    result |-> [err |-> TRUE]]
  /\ UNCHANGED ui

CallLoadConfig ==
  /\ call' = [fn |-> "LoadConfig", args |-> <<>>, done |-> TRUE,
              result |-> LoadConfig(configFile)]
  /\ UNCHANGED <<ui, configFile>>

CallResolveConfiguration(flagURL, flagToken, flagProfile) ==
  /\ call' = [fn |-> "ResolveConfiguration",
              args |-> [flagURL |-> flagURL, flagToken |-> flagToken,
                        flagProfile |-> flagProfile],
              done |-> TRUE,
              result |-> ResolveConfiguration(configFile, flagURL, flagToken,
                                              flagProfile)]
  /\ UNCHANGED <<ui, configFile>>

NextConfig ==
  \/ \E config \in Configs : CallSaveConfig(config)
  \/ CallLoadConfig
  \/ \E u \in FlagURLs, t \in FlagTokens, p \in FlagProfiles :
       CallResolveConfiguration(u, t, p)

SpecConfig == InitConfig /\ [][NextConfig]_vars

\* ---- compareVersions
\* version strings, as their characters
dev == <<"d", "e", "v">>
Versions ==
  {<<>>, <<"v">>, dev, <<"v">> \o dev,
   <<"1", ".", "0">>, <<"v", "1", ".", "0">>,
   <<"1", ".", "1">>, <<"v", "1", ".", "1">>,
   <<"v", "v", "1", ".", "0">>, <<"V", "1", ".", "0">>}

\* strings.TrimPrefix(s, "v")
TrimPrefix(s) == IF Len(s) >= 1 /\ s[1] = "v" THEN Tail(s) ELSE s

\* compareVersions, except that a dev version is compared like any other
compareVersions_comparesDev(current, latest) ==
  TrimPrefix(current) = TrimPrefix(latest)

compareVersions(current, latest) ==
  LET currentNorm == TrimPrefix(current)
      latestNorm == TrimPrefix(latest)
  IN  IF currentNorm = dev THEN FALSE ELSE currentNorm = latestNorm

InitCompareVersions ==
  /\ Idle
  /\ configFile = NoFile
  /\ call \in {Call("compareVersions", [current |-> c, latest |-> l]) :
                 c \in Versions, l \in Versions}

CallCompareVersions ==
  /\ call.fn = "compareVersions"
  /\ Return(compareVersions(call.args.current, call.args.latest))
  /\ UNCHANGED <<ui, configFile>>

NextCompareVersions == CallCompareVersions

SpecCompareVersions == InitCompareVersions /\ [][NextCompareVersions]_vars

\* ------------------------------------------------------------ properties
\* length of the list the current view displays
displayedLength == downLimit

\* the key handlers that navigate backward
BackKey == KeyLeft \/ KeyEsc \/ KeyBackspace

\* a bag of commands without the bookkeeping of who asked for them
Unstale(b) ==
  LET S == {[c EXCEPT !.stale = FALSE] : c \in BagToSet(b)}
  IN  [d \in S |-> CopiesIn([d EXCEPT !.stale = FALSE], b)
                     + CopiesIn([d EXCEPT !.stale = TRUE], b)]

\* the commands a step has scheduled, given the bag the step started from
Scheduled(before) == Unstale(inflight') (-) Unstale(before)

\* the handler that receives the completion c
Completion(c) ==
  \/ DatabasesLoaded(c) \/ SchemasLoaded(c) \/ TablesLoaded(c)
  \/ FieldsLoaded(c) \/ CollectionsLoaded(c) \/ CollectionItemsLoaded(c)
  \/ GlobalSearchLoaded(c)

\* C1: the cursor is a valid index into the list the current view displays:
\* 0 <= cursor < max(1, displayed length), the main menu having 2 entries
C1_CursorInBounds ==
  /\ cursor >= 0
  /\ cursor < Max(1, displayedLength)

\* C2: a load completion that answers a request made in a view the user has
\* left since is dropped: lists, loading and view stay and nothing is fetched
C2_StaleCompletionDiscarded ==
  [][\A c \in BagToSet(inflight) :
       (c.stale /\ Completion(c)) =>
         /\ UNCHANGED <<lists, loading, currentView>>
         /\ Scheduled(Delivered(c)) = EmptyBag]_vars

\* C3: at any time at most one metadata fetch is in flight
C3_AtMostOneFetchInFlight == OutstandingCount <= 1

\* C4: while a metadata fetch is outstanding the loading flag is set
C4_LoadingWhileOutstanding == (OutstandingCount > 0) => loading

\* the window of the collection-items viewport holds the cursor and lies
\* inside the list of the given length
ViewportHolds(cur, start, height, length) ==
  /\ start <= cur
  /\ cur < start + height
  /\ 0 <= start
  /\ start <= Max(0, length - height)

\* C5: in the collection-items view with a non-empty list the cursor lies in
\* the viewport window and the window start lies in [0, max(0, len - height)]
C5_ViewportWindow ==
  (currentView = viewCollectionItems /\ Len(collectionItems) > 0) =>
    ViewportHolds(cursor, viewportStart, viewportHeight, Len(collectionItems))

\* the steps that call updateViewport(length), with the window start the
\* call begins from
CallsUpdateViewport(start, length) ==
  \/ /\ KeyUp \/ KeyDown
     /\ ~helpMode
     /\ currentView = viewCollectionItems
     /\ cursor' # cursor
     /\ start = viewportStart
     /\ length = Len(collectionItems)
  \/ /\ \E c \in BagToSet(inflight) : \E items \in ItemLists(c.id) :
          /\ c.kind = "collectionItemsLoaded"
          /\ CollectionItemsLoadedOK(c, items)
          /\ length = Len(items)
     /\ start = 0

\* C6: after every call of updateViewport(length) with length > 0 the cursor
\* lies in the window and the start in [0, max(0, length - height)], and a
\* start that already satisfied both is left as it was
C6_UpdateViewportPost ==
  [][\A start \in {0, viewportStart} : \A length \in 1..(BigListLen + 1) :
       CallsUpdateViewport(start, length) =>
         /\ ViewportHolds(cursor', viewportStart', viewportHeight', length)
         /\ ViewportHolds(cursor', start, viewportHeight', length)
              => viewportStart' = start]_vars

\* C7: a successful Schemas completion with exactly one schema selects it,
\* enters the tables view with cursor 0 and loading set, and schedules one
\* tables fetch for the selected database; with zero or several schemas the
\* view stays and nothing is fetched; a successful Tables completion stores
\* the tables and clears loading
C7_SingleSchemaAutoSkip ==
  [][\A c \in BagToSet(inflight) : \A allTables \in TableLists(c.id) :
       /\ (c.kind = "schemasLoaded" /\ SchemasLoadedOK(c, allTables)) =>
            LET loaded == ExtractSchemas(allTables)
            IN  IF Len(loaded) = 1
                THEN /\ selectedSchema' = Ptr(loaded[1])
                     /\ currentView' = viewTables
                     /\ cursor' = 0
                     /\ loading'
                     /\ selectedDatabase # Nil
                     /\ Scheduled(Delivered(c)) =
                          SetToBag({loadTablesForSchema(
                            Deref(selectedDatabase), loaded[1].Name)})
                ELSE /\ currentView' = currentView
                     /\ Scheduled(Delivered(c)) = EmptyBag
       /\ (c.kind = "tablesLoaded" /\ TablesLoadedOK(c, allTables)) =>
            /\ tables' = TablesForSchema(allTables, c.name)
            /\ ~loading']_vars

\* C8: a load completion that carries an error sets the error text and clears
\* loading, and leaves the lists, the view, the cursor and the selections as
\* they were; nothing is fetched
C8_ErrorCompletion ==
  [][\A c \in BagToSet(inflight) :
       (c.kind \in FetchKinds /\ LoadFailed(c)) =>
         /\ error' # ""
         /\ ~loading'
         /\ UNCHANGED <<lists, currentView, cursor, selections,
                        collectionStack>>
         /\ Scheduled(Delivered(c)) = EmptyBag]_vars

\* a failed schemas fetch has been received in the schemas view
C8_Witness ==
  /\ currentView = viewSchemas
  /\ selectedDatabase # Nil
  /\ schemas = <<>>
  /\ error = ErrLoad
  /\ ~loading
  /\ inflight = EmptyBag

\* C9: the collection stack is last-in first-out: a backward navigation in
\* the collection-items view makes current the collection that was current
\* before the matching drill-in and restores the stack of that moment
C9_StackLIFO ==
  [][(/\ BackKey
      /\ currentView = viewCollectionItems
      /\ Len(collectionStack') < Len(collectionStack)) =>
       /\ pushLog # <<>>
       /\ selectedCollection' = pushLog[Len(pushLog)][1]
       /\ collectionStack' = pushLog[Len(pushLog)][2]]_vars

\* two levels down and one back: the middle collection is current again
\* while the fetch made for the deepest one is still under way
C9_Witness ==
  /\ currentView = viewCollectionItems
  /\ Len(collectionStack) = 1
  /\ selectedCollection # Nil
  /\ \E c \in BagToSet(inflight) :
       /\ c.kind = "collectionItemsLoaded"
       /\ c.stale
       /\ c.id > Deref(selectedCollection)
       /\ c.id >= Pow10(TreeDepth)
  /\ \E c \in BagToSet(inflight) :
       /\ c = loadCollectionItems(Deref(selectedCollection))

\* what a backward key does in the collection-items view
BackInCollectionItems ==
  IF Len(collectionStack) > 0
  THEN /\ currentView' = viewCollectionItems
       /\ selectedCollection' = collectionStack[Len(collectionStack)]
       /\ collectionStack' = SubSeq(collectionStack, 1, Len(collectionStack) - 1)
       /\ cursor' = 0
       /\ loading'
       /\ Scheduled(inflight) =
            SetToBag({loadCollectionItems(
                        Deref(collectionStack[Len(collectionStack)]))})
  ELSE /\ currentView' = viewCollections
       /\ collectionItems' = <<>>
       /\ selectedCollection' = Nil
       /\ Scheduled(inflight) = EmptyBag

\* C10 as stated: a backward key in the collection-items view pops one stack
\* entry, resets the cursor, sets loading and fetches the parent's items, or
\* with an empty stack returns to the collections view, clearing the item
\* list and the selected collection
C10_BackInCollectionItems ==
  [][(BackKey /\ currentView = viewCollectionItems) =>
       BackInCollectionItems]_vars

\* C10 amended: the same, when the help overlay is closed and no quick-select
\* number is pending
C10_BackInCollectionItemsNoNumber ==
  [][(/\ BackKey
      /\ ~helpMode
      /\ numberInput = <<>>
      /\ currentView = viewCollectionItems) =>
       BackInCollectionItems]_vars

\* one level down and back again while the fetch for the child is under way
C10_Witness ==
  /\ currentView = viewCollectionItems
  /\ collectionStack = <<>>
  /\ selectedCollection # Nil
  /\ cursor = 0
  /\ loading
  /\ numberInput = <<>>
  /\ \E c \in BagToSet(inflight) :
       /\ c.kind = "collectionItemsLoaded"
       /\ c.stale
       /\ c.id > Deref(selectedCollection)
  /\ \E c \in BagToSet(inflight) :
       /\ c = loadCollectionItems(Deref(selectedCollection))

\* the views of the fixed hierarchy that have a parent view
FixedChildViews == {viewFields, viewTables, viewSchemas, viewDatabases,
                    viewCollections}

\* what a backward key does in a view of the fixed hierarchy: the parent view
\* is current, the list and the selection of the level left are cleared, the
\* cursor is 0, the parent's list is kept and nothing is fetched
BackInFixedHierarchy ==
  /\ cursor' = 0
  /\ Scheduled(inflight) = EmptyBag
  /\ CASE currentView = viewFields ->
            /\ currentView' = viewTables
            /\ fields' = <<>> /\ selectedTable' = Nil
            /\ tables' = tables
       [] currentView = viewTables ->
            /\ currentView' = viewSchemas
            /\ tables' = <<>> /\ selectedSchema' = Nil
            /\ schemas' = schemas
       [] currentView = viewSchemas ->
            /\ currentView' = viewDatabases
            /\ schemas' = <<>> /\ selectedDatabase' = Nil
            /\ databases' = databases
       [] currentView = viewDatabases ->
            /\ currentView' = viewMainMenu
            /\ databases' = <<>>
       [] currentView = viewCollections ->
            /\ currentView' = viewMainMenu
            /\ collections' = <<>>

\* C11 as stated: a backward key in Fields, Tables, Schemas, Databases or
\* Collections restores the parent view, clears the list and the selection of
\* the level left, sets the cursor to 0, keeps the parent's list and fetches
\* nothing
C11_BackInFixedHierarchy ==
  [][(BackKey /\ currentView \in FixedChildViews) =>
       BackInFixedHierarchy]_vars

\* C11 amended: the same, when the help overlay is closed and no quick-select
\* number is pending
C11_BackInFixedHierarchyNoNumber ==
  [][(/\ BackKey
      /\ ~helpMode
      /\ numberInput = <<>>
      /\ currentView \in FixedChildViews) =>
       BackInFixedHierarchy]_vars

\* back from the schemas of a database while their fetch is still under way
C11_Witness ==
  /\ currentView = viewDatabases
  /\ databases # <<>>
  /\ schemas = <<>>
  /\ selectedDatabase = Nil
  /\ cursor = 0
  /\ numberInput = <<>>
  /\ \E c \in BagToSet(inflight) : c.kind = "schemasLoaded" /\ c.stale

\* the input modes that are active
ActiveModes ==
  {m \in {"Search", "NumericEntry", "Help"} :
     \/ m = "Search" /\ searchMode
     \/ m = "NumericEntry" /\ numberInput # <<>>
     \/ m = "Help" /\ helpMode}

\* C12: at most one of the modes Search, NumericEntry (a non-empty numeric
\* buffer) and Help is active
C12_AtMostOneMode == Cardinality(ActiveModes) <= 1

\* a key event of the collections revision
KeyEvent ==
  \/ KeyHelp \/ KeySlash \/ (\E d \in Digits : KeyDigit(d))
  \/ KeyUp \/ KeyDown \/ KeyLeft \/ KeyRight \/ KeyEnter \/ KeyW
  \/ KeyBackspace \/ KeyEsc \/ (\E ch \in Chars : KeyChar(ch))

\* C13: while the help overlay is open no key changes the view, the cursor,
\* a list, a selection or the collection stack, and none schedules a fetch
C13_HelpInterceptsKeys ==
  [][(helpMode /\ KeyEvent) =>
       /\ UNCHANGED <<currentView, cursor, lists, selections, collectionStack>>
       /\ Scheduled(inflight) = EmptyBag]_vars

\* C14: an empty search query goes with an empty filteredIndices, and
\* filteredIndices changes only in steps taken in search mode
C14_EmptyQueryEmptyFilter ==
  /\ [](searchQuery = <<>> => filteredIndices = <<>>)
  /\ [][filteredIndices' # filteredIndices => searchMode]_vars

\* a query that matched was emptied again with the cursor off the first row
C14_Witness ==
  /\ searchMode
  /\ searchQuery = <<>>
  /\ filteredIndices = <<>>
  /\ cursor > 0

\* the search-mode steps that recompute filteredIndices
RecomputesFilter ==
  \/ SearchBackspace /\ Len(searchQuery) > 0
  \/ \E ch \in SearchChars : SearchType(ch)

\* C15: every recomputation of filteredIndices in search mode, by a typed
\* character or by backspace, leaves the cursor at 0
C15_RecomputeResetsCursor ==
  [][RecomputesFilter => cursor' = 0]_vars

\* the list of the current view in the database views
dbList ==
  CASE currentView = viewDatabases -> databases
    [] currentView = viewSchemas -> schemas
    [] currentView = viewTables -> tables
    [] currentView = viewFields -> fields
    [] OTHER -> <<>>

\* the state and the fetch a normal-mode forward key yields on the item at
\* the 0-based index idx of the current list
ForwardOn(idx) ==
  /\ ~panicked'
  /\ numberInput' = <<>>
  /\ lists' = lists
  /\ CASE currentView = viewDatabases /\ Len(databases) > 0 ->
            /\ idx < Len(databases)
            /\ selectedDatabase' = Ptr(databases[idx + 1])
            /\ currentView' = viewSchemas /\ cursor' = 0
            /\ loading' /\ error' = ""
            /\ Scheduled(inflight) = SetToBag({loadSchemas(databases[idx + 1])})
       [] currentView = viewSchemas /\ Len(schemas) > 0 ->
            /\ idx < Len(schemas)
            /\ selectedDatabase # Nil
            /\ selectedSchema' = Ptr(schemas[idx + 1])
            /\ currentView' = viewTables /\ cursor' = 0
            /\ loading' /\ error' = ""
            /\ Scheduled(inflight) =
                 SetToBag({loadTablesForSchema(Deref(selectedDatabase),
                                               schemas[idx + 1].Name)})
       [] currentView = viewTables /\ Len(tables) > 0 ->
            /\ idx < Len(tables)
            /\ selectedTable' = Ptr(tables[idx + 1])
            /\ currentView' = viewFields /\ cursor' = 0
            /\ loading' /\ error' = ""
            /\ Scheduled(inflight) = SetToBag({loadFields(tables[idx + 1].ID)})
       [] OTHER ->
            /\ idx < Len(dbList)
            /\ cursor' = idx
            /\ UNCHANGED <<currentView, selections, loading, error>>
            /\ Scheduled(inflight) = EmptyBag

\* C16: enter in search mode with a filtered item under the cursor selects
\* the item at original index filteredIndices[cursor] exactly as a
\* normal-mode forward key on that item does, and leaves search mode off with
\* an empty query and an empty filteredIndices
C16_SearchEnterCommits ==
  [][(/\ SearchEnter
      /\ Len(filteredIndices) > 0
      /\ cursor < Len(filteredIndices)) =>
       /\ ~searchMode' /\ searchQuery' = <<>> /\ filteredIndices' = <<>>
       /\ ForwardOn(filteredIndices[cursor + 1])]_vars

\* a digit key pressed outside the help overlay
DigitKey(d) == UsesDigits /\ ~helpMode /\ KeyDigit(d)

C18_BufferAtMostTwo ==
  /\ [][\A d \in Digits :
          DigitKey(d) =>
            LET input == Append(numberInput, d)
                value == Atoi(input)
            IN  (\/ Len(input) >= 3
                 \/ /\ Len(input) = 2
                    /\ input[1] # "0"
                    /\ (value < 1 \/ value > itemCount))
                => numberInput' = <<>>]_vars
  /\ [](Len(numberInput) <= 2)

\* a non-digit navigation key: an arrow key or a mode switch
NavigationKey ==
  KeyUp \/ KeyDown \/ KeyLeft \/ KeyRight \/ KeySlash \/ KeyHelp

\* C19: the numeric buffer is empty after every arrow key and mode switch
\* and after every step that changes the current view, the automatic
\* Schemas-to-Tables skip included
C19_BufferClearedOnNavigation ==
  [][(NavigationKey \/ currentView' # currentView) => numberInput' = <<>>]_vars

\* a forward key on a view with nothing listed, or a digit whose value is
\* outside 1..itemCount
InvalidInput ==
  \/ displayedLength = 0 /\ (KeyRight \/ KeyEnter)
  \/ \E d \in Digits :
       /\ UsesDigits
       /\ LET value == Atoi(Append(numberInput, d))
          IN  value < 1 \/ value > itemCount
       /\ KeyDigit(d)

\* what invalid input leaves alone
Ignored ==
  /\ UNCHANGED <<currentView, cursor, lists, selections, loading, error>>
  /\ Scheduled(inflight) = EmptyBag

\* C20: a forward key on a view whose list is empty and a digit entry whose
\* value is outside 1..itemCount leave the view, the cursor, the lists, the
\* selections, loading and the error message unchanged and schedule no fetch
C20_InvalidInputIgnored ==
  [][InvalidInput => Ignored]_vars

\* C20 with the help overlay closed
C20_InvalidInputIgnoredNormalMode ==
  [][(~helpMode /\ InvalidInput) => Ignored]_vars

\* an out-of-range digit was typed on a loaded view that lists nothing
C20_Witness ==
  /\ ~helpMode
  /\ currentView \notin {viewMainMenu, viewGlobalSearch}
  /\ displayedLength = 0
  /\ ~loading
  /\ error = ""
  /\ numberInput = <<"8">>

\* the program has neither panicked nor exited
Running == ~panicked /\ ~quit

\* C21: in every state of the running program the key ctrl+c makes the
\* program exit, whatever the view, the input mode and the loading flag, and
\* while loading is true the key '?' toggles the help overlay
C21_QuitAndHelpResponsive ==
  Running =>
    /\ ENABLED (DbKeyCtrlC /\ quit')
    /\ loading => ENABLED (DbKeyHelp /\ helpMode' # helpMode)

\* the name under which ExtractSchemas is to count a table
CountedUnder(table) == IF table.Schema = "" THEN "default" ELSE table.Schema

\* C22: ExtractSchemas returns one schema per distinct schema name of the
\* input tables, an empty schema name counted as "default", each TableCount
\* the number of tables of that name, sorted by name in ascending order, and
\* no schema for an empty input
C22_ExtractSchemas ==
  (call.fn = "ExtractSchemas" /\ call.done) =>
    LET ts == call.args
        r == call.result
        names == {CountedUnder(ts[i]) : i \in 1..Len(ts)}
    IN  /\ {r[i].Name : i \in 1..Len(r)} = names
        /\ Len(r) = Cardinality(names)
        /\ \A i \in 1..Len(r) :
             r[i].TableCount =
               Cardinality({k \in 1..Len(ts) : CountedUnder(ts[k]) = r[i].Name})
        /\ \A i, j \in 1..Len(r) :
             i < j => NameRank(r[i].Name) < NameRank(r[j].Name)
        /\ (ts = <<>> => r = <<>>)

\* a table without schema name and tables of two named schemas were counted
C22_Witness ==
  /\ call.fn = "ExtractSchemas" /\ call.done
  /\ Len(call.args) = 3
  /\ call.args[1].Schema = "public"
  /\ call.args[2].Schema = ""
  /\ call.args[3].Schema = "public"
  /\ call.result = <<[Name |-> "default", TableCount |-> 1],
                     [Name |-> "public", TableCount |-> 2]>>

\* the value ResolveConfiguration is to settle on: the flag when it is not
\* empty, otherwise the field of the profile named by the flag profile or else
\* by the default profile of the config file
Resolved(flag, flagProfile, field) ==
  IF flag # "" THEN flag
  ELSE LET loaded == LoadConfig(configFile)
           name == IF flagProfile # "" THEN flagProfile
                   ELSE loaded.config.DefaultProfile
       IN  IF /\ ~loaded.err
              /\ name \in DOMAIN loaded.config.Profiles
           THEN loaded.config.Profiles[name][field]
           ELSE ""

\* C23: ResolveConfiguration takes URL and token each from its flag when the
\* flag is not empty and otherwise from the named profile of the config file,
\* returns an error exactly when one of the two is still empty, and never
\* lets the file override a non-empty flag
C23_ResolveConfiguration ==
  (call.fn = "ResolveConfiguration" /\ call.done) =>
    LET url == Resolved(call.args.flagURL, call.args.flagProfile, "URL")
        token == Resolved(call.args.flagToken, call.args.flagProfile, "Token")
    IN  /\ call.result.err <=> (url = "" \/ token = "")
        /\ ~call.result.err =>
             /\ call.result.url = url
             /\ call.result.token = token
        /\ (~call.result.err /\ call.args.flagURL # "") =>
             call.result.url = call.args.flagURL
        /\ (~call.result.err /\ call.args.flagToken # "") =>
             call.result.token = call.args.flagToken

\* the URL came from the flag and the token from the default profile, whose
\* own URL was not taken
C23_Witness ==
  /\ call.fn = "ResolveConfiguration" /\ call.done
  /\ call.args = [flagURL |-> "fu", flagToken |-> "", flagProfile |-> ""]
  /\ configFile.exists /\ configFile.accessible /\ configFile.valid
  /\ LoadConfig(configFile).config.DefaultProfile = "work"
  /\ "work" \in DOMAIN LoadConfig(configFile).config.Profiles
  /\ LoadConfig(configFile).config.Profiles["work"] = Profile("u", "t")
  /\ call.result = [url |-> "fu", token |-> "t", err |-> FALSE]

\* C24: LoadConfig right after a successful SaveConfig returns, without
\* error, the saved default profile and the saved profiles; LoadConfig where
\* no file exists returns, without error, an empty default profile and an
\* initialized empty profile map
C24_SaveLoadRoundTrip ==
  [][CallLoadConfig =>
       LET loaded == call'.result
       IN  /\ (call.fn = "SaveConfig" /\ call.done /\ ~call.result.err) =>
                /\ ~loaded.err
                /\ loaded.config.DefaultProfile = call.args.DefaultProfile
                /\ loaded.config.Profiles = call.args.Profiles
           /\ ~configFile.exists =>
                /\ ~loaded.err
                /\ loaded.config.DefaultProfile = ""
                /\ ~loaded.config.isNil
                /\ DOMAIN loaded.config.Profiles = {}]_vars

\* a configuration whose profile has the URL "null" was saved and loaded back
C24_Witness ==
  /\ call.fn = "LoadConfig" /\ call.done
  /\ ~call.result.err
  /\ configFile = File(TRUE, TRUE, Marshal(call.result.config))
  /\ call.result.config.DefaultProfile = "dev"
  /\ DOMAIN call.result.config.Profiles = {"work", "dev"}
  /\ call.result.config.Profiles["dev"] = Profile("null", "t")

\* s without one leading "v"
WithoutV(s) == IF s # <<>> /\ Head(s) = "v" THEN SubSeq(s, 2, Len(s)) ELSE s

\* C25: compareVersions(current, latest) is true exactly when the versions
\* are equal after a leading "v" is removed from each and current is not
\* "dev"; for current "dev" it is false for every latest
C25_CompareVersions ==
  (call.fn = "compareVersions" /\ call.done) =>
    /\ call.result <=> (/\ WithoutV(call.args.current) = WithoutV(call.args.latest)
                        /\ call.args.current # dev)
    /\ call.args.current = dev => ~call.result

\* C25 with "dev" recognised after the leading "v" is removed
C25_CompareVersionsNormalisedDev ==
  (call.fn = "compareVersions" /\ call.done) =>
    /\ call.result <=> (/\ WithoutV(call.args.current) = WithoutV(call.args.latest)
                        /\ WithoutV(call.args.current) # dev)
    /\ WithoutV(call.args.current) = dev => ~call.result

\* versions that differ only in the leading "v" were compared
C25_Witness ==
  /\ call.fn = "compareVersions" /\ call.done
  /\ call.args.current = <<"v", "1", ".", "0">>
  /\ call.args.latest = <<"1", ".", "0">>
  /\ call.result = TRUE


\* the forward key handlers
ForwardKey == KeyRight \/ KeyEnter

\* the views whose items lead to a child list
ParentViews ==
  {viewDatabases, viewSchemas, viewTables, viewCollections,
   viewCollectionItems}

\* the cursor is not on a leaf: a card or dashboard of a collection
OnParentItem ==
  /\ currentView \in ParentViews
  /\ Len(forwardList) > 0
  /\ (currentView = viewCollectionItems /\ cursor < Len(collectionItems)) =>
       collectionItems[cursor + 1].Model = "collection"

\* the item under the cursor is taken as the selection of its level, the child
\* view is entered at cursor 0 with loading set and the error cleared, and the
\* one fetch scheduled is the fetch of the child list of that item
ForwardTaken ==
  /\ ~panicked'
  /\ cursor < Len(forwardList)
  /\ cursor' = 0 /\ loading' /\ error' = ""
  /\ CASE currentView = viewDatabases ->
            /\ selectedDatabase' = Ptr(databases[cursor + 1])
            /\ currentView' = viewSchemas
            /\ Scheduled(inflight) =
                 SetToBag({loadSchemas(databases[cursor + 1])})
       [] currentView = viewSchemas ->
            /\ selectedDatabase # Nil
            /\ selectedSchema' = Ptr(schemas[cursor + 1])
            /\ currentView' = viewTables
            /\ Scheduled(inflight) =
                 SetToBag({loadTablesForSchema(Deref(selectedDatabase),
                                               schemas[cursor + 1].Name)})
       [] currentView = viewTables ->
            /\ selectedTable' = Ptr(tables[cursor + 1])
            /\ currentView' = viewFields
            /\ Scheduled(inflight) =
                 SetToBag({loadFields(tables[cursor + 1].ID)})
       [] currentView = viewCollections ->
            /\ selectedCollection' = Ptr(collections[cursor + 1])
            /\ currentView' = viewCollectionItems
            /\ Scheduled(inflight) =
                 SetToBag({loadCollectionItems(collections[cursor + 1])})
       [] currentView = viewCollectionItems ->
            /\ selectedCollection' = Ptr(collectionItems[cursor + 1].ID)
            /\ currentView' = viewCollectionItems
            /\ Scheduled(inflight) =
                 SetToBag({loadCollectionItems(collectionItems[cursor + 1].ID)})

\* C26: a forward key (enter or right) outside the help overlay, on a view
\* whose list is non-empty, the cursor not being on a leaf item, takes the
\* item at the cursor as the selection of that level, enters the child view
\* with cursor 0, loading set and the error cleared, and schedules exactly one
\* fetch, of the child list of that item; every event schedules at most one
\* fetch
C26_ForwardTakesItemAtCursor ==
  [][/\ BagCardinality(Scheduled(inflight)) <= 1
     /\ (~helpMode /\ OnParentItem /\ ForwardKey) => ForwardTaken]_vars


\* the list of the current view, <<>> on the main menu
viewList ==
  CASE currentView = viewDatabases -> databases
    [] currentView = viewSchemas -> schemas
    [] currentView = viewTables -> tables
    [] currentView = viewFields -> fields
    [] currentView = viewCollections -> collections
    [] currentView = viewCollectionItems -> collectionItems
    [] OTHER -> <<>>

\* a key enters a level whose list is to be fetched: a forward transition, a
\* drill into a sub-collection or a pop of the collection stack
EntersLevel ==
  /\ ~helpMode
  /\ ForwardKey \/ BackKey
  /\ Scheduled(inflight) # EmptyBag

\* C27: immediately after a forward transition, a collection drill-in or a
\* collection-stack pop, the list of the newly entered level is empty
C27_EnteredLevelListCleared ==
  [][EntersLevel => viewList' = <<>>]_vars


\* a quick-select digit outside search mode, or a character typed in search
\* mode
NumericOrSearchInput ==
  \/ ~searchMode /\ \E d \in Digits : DigitKey(d)
  \/ \E ch \in SearchChars : SearchType(ch)

\* C28: while loading is set, digit keys and search keystrokes change neither
\* the cursor, nor the numeric buffer, nor the query, nor filteredIndices
C28_InputSuppressedWhileLoading ==
  [][(loading /\ NumericOrSearchInput) =>
       UNCHANGED <<cursor, numberInput, searchQuery, filteredIndices,
                   globalSearchQuery>>]_vars


\* the completion c is received with msg.err == nil
SuccessfulLoad(c) ==
  /\ ~panicked'
  /\ \/ /\ c.kind = "databasesLoaded"
        /\ \E dbs \in DatabaseLists : DatabasesLoadedOK(c, dbs)
     \/ /\ c.kind = "collectionsLoaded"
        /\ \E cs \in CollectionLists : CollectionsLoadedOK(c, cs)
     \/ /\ c.kind = "collectionItemsLoaded"
        /\ \E items \in ItemLists(c.id) : CollectionItemsLoadedOK(c, items)
     \/ /\ c.kind = "globalSearchLoaded"
        /\ \E results \in SearchLists(c.q) : GlobalSearchLoadedOK(c, results)
     \/ /\ c.kind = "schemasLoaded"
        /\ \E allTables \in TableLists(c.id) : SchemasLoadedOK(c, allTables)
     \/ /\ c.kind = "tablesLoaded"
        /\ \E allTables \in TableLists(c.id) : TablesLoadedOK(c, allTables)
     \/ /\ c.kind = "fieldsLoaded"
        /\ \E fs \in FieldLists(c.id) : FieldsLoadedOK(c, fs)

\* a step that receives a successful load completion
LoadSucceeds == \E c \in BagToSet(inflight) : SuccessfulLoad(c)

\* C29: an error message that is set stays set while the program runs until a
\* load completes successfully, and after any successful load completion the
\* error message is empty
C29_ErrorUntilSuccessfulLoad ==
  [][/\ (error # "" /\ ~quit' /\ ~LoadSucceeds) => error' # ""
     /\ LoadSucceeds => error' = ""]_vars


\* a step of one of the keys left, backspace and esc is a step of the other
\* two: same resulting state, same scheduled command
BackKeysAgree ==
  (KeyLeft \/ KeyEsc \/ KeyBackspace) => (KeyLeft /\ KeyEsc /\ KeyBackspace)

Navigates ==
  \/ currentView' # currentView
  \/ selections' # selections
  \/ lists' # lists
  \/ inflight' # inflight /\ Scheduled(inflight) # EmptyBag

\* C31: while search mode is active no key other than enter changes the
\* current view, a list or a selection or schedules a fetch (a step that does
\* is the enter key or a completion message); up and down keep the cursor
\* within the bounds of filteredIndices; and search mode is left only by enter
\* or esc
C31_SearchModeIntercepts ==
  [][searchMode =>
       /\ ~searchMode' => (SearchEnter \/ SearchEsc)
       /\ Navigates => (SearchEnter \/ DbDeliver)
       /\ (cursor < Len(filteredIndices) /\ (SearchUp \/ SearchDown)) =>
            (cursor' >= 0 /\ cursor' < Len(filteredIndices'))]_vars

\* two matches are listed and the cursor was moved down to the second
C31_Witness ==
  /\ searchMode
  /\ searchQuery # <<>>
  /\ Len(filteredIndices) >= 2
  /\ cursor = Len(filteredIndices) - 1
  /\ ~panicked


\* C32: esc in search mode leaves search mode, discards the query and
\* filteredIndices and puts the cursor on 0; it changes neither the current
\* view, nor a list, nor a selection, nor loading, and schedules no fetch
C32_SearchEscDiscards ==
  [][(searchMode /\ SearchEsc) =>
       /\ ~searchMode'
       /\ searchQuery' = <<>> /\ filteredIndices' = <<>>
       /\ cursor' = 0
       /\ UNCHANGED <<currentView, lists, selections, loading>>
       /\ Scheduled(inflight) = EmptyBag]_vars

\* a query with two matches is typed while a fetch is under way, the cursor
\* is on the second match, and esc is about to discard all of it
C32_Witness ==
  /\ searchMode
  /\ loading
  /\ searchQuery # <<>>
  /\ Len(filteredIndices) >= 2
  /\ cursor = 1
  /\ ENABLED (SearchEsc /\ ~searchMode' /\ cursor' = 0 /\ loading')


\* C33: a spinner tick leaves the view, the cursor, the lists, the
\* selections, the stack, the modes, loading and the error unchanged; while
\* loading it advances the spinner index and starts exactly the next timer;
\* when loading is false it changes no field and starts nothing
C33_SpinnerTickOnlySpins ==
  /\ [][SpinnerTick =>
         /\ UNCHANGED <<currentView, cursor, lists, selections,
                        collectionStack, help, search, numberInput, loading,
                        error>>
         /\ loading =>
              /\ spinnerIndex' = (spinnerIndex + 1) % SpinnerFrames
              /\ Scheduled(Delivered(tickSpinner)) = SetToBag({tickSpinner})
         /\ ~loading =>
              /\ spinnerIndex' = spinnerIndex
              /\ Scheduled(Delivered(tickSpinner)) = EmptyBag]_vars
  /\ [](~loading =>
          ~ENABLED (SpinnerTick /\ inflight' # Delivered(tickSpinner)))

\* the spinner went round all its frames and then the load completed: the
\* last timer is still to fire
C33_Witness ==
  /\ spinnerIndex = SpinnerFrames - 1
  /\ ~loading
  /\ TimerCount > 0
  /\ OutstandingCount = 0
  /\ currentView = viewFields


\* C34: in the root collection list the collection stack is empty
C34_StackEmptyAtRoot ==
  currentView = viewCollections => collectionStack = <<>>


\* while the program runs the selections the current view dereferences are
\* set
SelectionsSet ==
  Running =>
  /\ currentView \in {viewSchemas, viewTables, viewFields} =>
       selectedDatabase # Nil
  /\ currentView \in {viewTables, viewFields} => selectedSchema # Nil
  /\ currentView = viewFields => selectedTable # Nil

\* a step that schedules a tables fetch: a forward key on a schema, or a
\* schemas completion that holds a single schema
SchedulesTablesFetch ==
  \/ /\ ~helpMode
     /\ currentView = viewSchemas /\ Len(schemas) > 0
     /\ ForwardKey
  \/ \E c \in BagToSet(inflight) :
       /\ c.kind = "schemasLoaded"
       /\ \E allTables \in TableLists(c.id) :
            /\ Len(ExtractSchemas(allTables)) = 1
            /\ SchemasLoadedOK(c, allTables)

\* C35: in Schemas, Tables and Fields the selected database is set, in Tables
\* and Fields the selected schema, in Fields the selected table; and whenever
\* a tables fetch is scheduled, by a forward key or by the single-schema
\* skip, the selected database is set
C35_SelectionsSet ==
  /\ []SelectionsSet
  /\ [][SchedulesTablesFetch => selectedDatabase # Nil]_vars


\* C36: while the program runs, in the collection-items view the selected
\* collection is set and so is every entry of the collection stack
C36_CollectionsSet ==
  (Running /\ currentView = viewCollectionItems) =>
    /\ selectedCollection # Nil
    /\ \A i \in 1..Len(collectionStack) : collectionStack[i] # Nil


\* two levels below a root collection, the items of the innermost loaded
C36_Witness ==
  /\ Running
  /\ currentView = viewCollectionItems
  /\ Len(collectionStack) = 2
  /\ selectedCollection # Nil
  /\ ~loading
  /\ collectionItems # <<>>


\* C37: while the program runs every element of filteredIndices is an index
\* into the list of the current view, 0 <= i < its length, so that a commit
\* with enter never indexes outside the list
C37_FilteredIndicesValid ==
  Running =>
    \A k \in 1..Len(filteredIndices) :
      /\ filteredIndices[k] >= 0
      /\ filteredIndices[k] < Len(dbList)


\* every scheduled fetch eventually delivers its completion message and the
\* 100 ms timer of tickSpinner eventually fires
SpecSpinnerFair == SpecSpinner /\ WF_vars(Deliver) /\ WF_vars(SpinnerTick)

\* loading is false, no fetch is outstanding and no spinner tick is pending
Quiescent == ~loading /\ inflight = EmptyBag

\* C38: if from some point on no key event arrives (every step is a
\* completion message or a spinner tick), then eventually loading is false
\* and stays false, no fetch is outstanding and no spinner tick is pending
C38_EventuallyQuiescent ==
  <>[][Deliver \/ SpinnerTick]_vars => <>[]Quiescent

\* the same, for the runs in which the program does not panic
C38_QuiescentUnlessPanicked ==
  <>[][Deliver \/ SpinnerTick]_vars => <>[](panicked \/ Quiescent)


\* a search fetch is outstanding
SearchOutstanding ==
  \E c \in BagToSet(inflight) : c.kind = "globalSearchLoaded"

\* C39: in the global-search view, whenever no search fetch is outstanding,
\* the displayed results are results of the search for the current query if
\* the query has at least 2 characters and are empty otherwise
C39_ResultsOfCurrentQuery ==
  (Running /\ currentView = viewGlobalSearch /\ ~SearchOutstanding) =>
    IF Len(globalSearchQuery) >= 2
    THEN searchResults \in SearchLists(globalSearchQuery)
    ELSE searchResults = <<>>


RECURSIVE SumTableCount(_)
SumTableCount(r) ==
  IF r = <<>> THEN 0 ELSE Head(r).TableCount + SumTableCount(Tail(r))

\* the elements of a sequence
Range(sq) == {sq[k] : k \in 1..Len(sq)}

\* C40: the TableCount values ExtractSchemas returns sum to the number of
\* tables and none is zero; the tables loadTablesForSchema selects for a
\* listed schema are tables of the list, number exactly its TableCount and
\* are selected for no other listed schema
C40_SchemasPartitionTables ==
  /\ (call.fn = "ExtractSchemas" /\ call.done) =>
       /\ SumTableCount(call.result) = Len(call.args)
       /\ \A i \in 1..Len(call.result) : call.result[i].TableCount > 0
  /\ (call.fn = "loadTablesForSchema" /\ call.done) =>
       LET ts == call.args[1]
           r == call.args[2]
           i == call.args[3]
       IN  /\ Len(call.result) = r[i].TableCount
           /\ Len(call.result) > 0
           /\ Range(call.result) \subseteq Range(ts)
           /\ SumTableCount(r) = Len(ts)
           /\ \A j \in 1..Len(r) :
                j # i =>
                  Range(TablesForSchema(ts, r[j].Name)) \cap Range(call.result) = {}

\* the tables of schema default are loaded from a list that holds a table
\* without a schema, a table of schema default and one of another schema
C40_Witness ==
  /\ call.fn = "loadTablesForSchema" /\ call.done
  /\ call.args[1] = <<Table(1, "public"), Table(2, ""), Table(3, "default")>>
  /\ call.args[2][call.args[3]].Name = DefaultSchema
  /\ call.result = <<Table(2, ""), Table(3, "default")>>

====
